---- MODULE Spec2Model ----
(***************************************************************************)
(* Model of the benchmark engine of zen-ai-agent:                          *)
(*   - bench/verify.py  BrowserVerifier (correlated commands over a cached *)
(*     WebSocket, reconnect-and-retry, capture_state, cleanup_tabs)        *)
(*   - bench/runner.py  BenchmarkRunner.run_scenario (attempt loop,        *)
(*     classification, persistence)                                        *)
(* Every await of the source is one step of the model; the synchronous     *)
(* code that follows an await (exception handlers, the caller's            *)
(* continuation) belongs to the same step.                                 *)
(***************************************************************************)
EXTENDS Integers, Sequences, FiniteSets, TLC

\* ------------------------------------------------------------------ bounds
\* largest Scenario.max_attempts explored
MaxAttempts == 2
\* longest list of verification predicates of a scenario
MaxChecks == 2
\* most tool invocations the agent streams in one attempt
MaxToolCalls == 1
\* number of public BrowserVerifier calls explored in one behaviour
MaxCalls == 1
\* longest tab list the endpoint answers list_tabs with
MaxTabs == 2
\* most rows the runs table holds
MaxRuns == 2
\* longest list of RunResults handed to generate
MaxResults == 2
\* most fragments an error message is put together from
MaxPieces == 2
\* longest list of RunResults handed to analyze_failures
MaxFailures == 4
\* number of verifier commands one of two concurrent run_scenario calls sends
MaxCommands == 2
\* calls made on the shared BrowserVerifier
MaxSharedCalls == 4

\* browser_command calls made by the concurrent tool calls
MaxTaskCalls == 3

\* number of browser_command calls made on the proxy
MaxProxyCalls == 2

\* ------------------------------------------------- constants of the program
\* verify.py:14
MAX_RECV_ATTEMPTS == 10
\* verify.py:44  for retry in range(2)
SEND_TRIES == 2
\* default of the parameter last_n of get_pass_rate
DEFAULT_LAST_N == 10
\* number of characters _error_signature keeps of an unknown error
SIGNATURE_LENGTH == 50
\* number of example errors a FailurePattern keeps
MAX_EXAMPLES == 3
\* width of the number in the id of an ImprovementTask
ID_WIDTH == 3
\* the historical pass rate a regression must exceed: 0.7
REGRESSION_RATE == [num |-> 7, den |-> 10]

\* ======================================================================
\*                      bench/verify.py  BrowserVerifier
\* ======================================================================
VARIABLES
    ws,        \* self._ws: 0 is None, otherwise the id of the cached connection
    connOpen,  \* ids of the connections that are open (closed by neither side)
    stale,     \* ids of requests sent on the cached connection whose response
               \* was never consumed (the endpoint may still deliver it; a
               \* closed connection delivers nothing)
    calls,     \* number of public calls started
    vop,       \* public method in progress: "idle", "capture_state", "cleanup_tabs"
    step,      \* capture_state: index of the command; cleanup_tabs: 0 for
               \* list_tabs, then the index of the tab being closed
    state,     \* capture_state's local dict `state`
    tabs,      \* cleanup_tabs' local `tabs`
    oplog,     \* commands the current public call has issued, with outcome
    lastOp,    \* how the last public call ended
    sc,        \* frame of the running _send_command
    lastCmd    \* how the last _send_command ended

\* ---- bench/runner.py  BenchmarkRunner.run_scenario ------------------------
VARIABLES
    rpc,           \* where run_scenario is: "idle", "setup", "stream", "capture",
                   \* "verify", "teardown", "sleep", "done", "assert_failed"
    scenario,      \* the Scenario passed to run_scenario
    attempt,       \* loop variable `attempt`
    run,           \* the ScenarioRun of the current attempt
    tool_calls,    \* local list `tool_calls` (emptied once the attempt no
                   \* longer reads it)
    pending_tools, \* local dict `pending_tools`: call id -> index of its record
    vi,            \* index of the verification being evaluated
    persisted,     \* rows the collector has stored, in order (the columns
                   \* attempt, passed, failure_category of each)
    result,        \* local `result`: the last RunResult built
    att,           \* what happened in the current attempt (for the properties)
    delays         \* calls of asyncio.sleep(2) since run_scenario was called

\* ---- bench/metrics.py  MetricsCollector ------------------------------------
VARIABLES
    runs,      \* table `runs` in insertion order (the columns scenario_id,
               \* passed, total_cost_usd, timestamp of each row)
    mret       \* the last call made on the collector and what it returned

rvars == <<rpc, scenario, attempt, run, tool_calls, pending_tools, vi,
           persisted, result, att, delays>>
\* ---- bench/report.py  ReportGenerator --------------------------------------
VARIABLES
    report     \* the last call of generate: its argument and the SuiteReport

\* ---- bench/improve.py  SelfImprover ----------------------------------------
VARIABLES
    signed,    \* the last call of _error_signature: its argument and its value
    cycle,     \* the last analyze_failures call: its argument, the patterns it
               \* returned and, once generate_tasks has run, the tasks
    earlier    \* the cycle before the last one (kept for the properties)

\* ---- bench/parallel_test.py  run_parallel ---------------------------------
VARIABLES
    par,       \* per worker: where its run_scenario is, the command it has
               \* outstanding, the last message its verifier read, its result
    pws,       \* per BrowserVerifier: self._ws (0 is None)
    chan,      \* per connection: the messages on their way to the client
    requests,  \* commands the endpoint has received and not answered
    pnext,     \* per worker: the number of ids uuid4 has given it
    pstored    \* the scenario ids of the rows of benchmarks.db, which both
               \* collectors write to

\* ---- bench/verify.py  one BrowserVerifier, several coroutines --------------
VARIABLES
    co,        \* per coroutine: where its call on the verifier is, its local
               \* `ws`, its try (`retry`), the id of its command
    co_ws,     \* self._ws of the verifier they share (0 is None)
    co_open,   \* the connections opened and not closed
    co_sent,   \* the commands sent and not answered: connection and sender
    co_next,   \* the number of connections opened so far
    co_calls   \* the number of calls made on the verifier so far

\* ---- mcp/zenleap_mcp_server.py  concurrent tool calls ----------------------
VARIABLES
    tc,         \* per tool call task: where its browser_command is, its try,
                \* the connection it uses, how it ended
    cmd_lock,   \* the task holding _ws_command_lock (0: nobody)
    tc_ws,      \* _ws_connection (0 is None)
    tc_next,    \* the number of connections opened so far
    tc_calls,   \* the number of browser_command calls made so far
    tc_last     \* the task that last assigned _ws_connection (0: nobody)

\* ---- mcp/zenleap_mcp_server.py -------------------------------------------
VARIABLES
    bc,             \* the browser_command call: where it is, its try, what it
                    \* has sent and read, how it ended
    ws_connection,  \* _ws_connection (0 is None)
    session_id,     \* _session_id (0 is None)
    SESSION_ID,     \* the ZENLEAP_SESSION_ID of the process (0 is unset)
    sockets,        \* every connection opened: its url, whether the proxy
                    \* closed it, the messages waiting to be received on it
    commands,       \* requests the browser has received and not answered
    bcalls          \* number of browser_command calls made

mvars == <<runs, mret>>
xvars == <<bc, ws_connection, session_id, SESSION_ID, sockets, commands, bcalls>>
parvars == <<par, pws, chan, requests, pnext, pstored>>
covars == <<co, co_ws, co_open, co_sent, co_next, co_calls>>
tcvars == <<tc, cmd_lock, tc_ws, tc_next, tc_calls, tc_last>>
ivars == <<signed, cycle, earlier>>
pvars == <<report>>

connVars == <<ws, connOpen, stale>>
callerVars == <<calls, vop, step, state, tabs, oplog, lastOp>>
vvars == <<ws, connOpen, stale, calls, vop, step, state, tabs, oplog,
           lastOp, sc, lastCmd>>
\* what the actions of one component leave alone
outsideVerifier == <<rvars, mvars, pvars, ivars, parvars, xvars, covars, tcvars>>
outsideRunner == <<vvars, mvars, pvars, ivars, parvars, xvars, covars, tcvars>>
outsideMetrics == <<rvars, vvars, pvars, ivars, parvars, xvars, covars, tcvars>>
outsideReport == <<rvars, vvars, mvars, ivars, parvars, xvars, covars, tcvars>>
outsideSignature == <<rvars, vvars, mvars, pvars, cycle, earlier, parvars, xvars, covars, tcvars>>
outsideImprove == <<rvars, vvars, pvars, parvars, xvars, covars, tcvars>>
outsideParallel == <<rvars, vvars, mvars, pvars, ivars, xvars, covars, tcvars>>
outsideProxy == <<rvars, vvars, mvars, pvars, ivars, parvars, covars, tcvars>>
outsideShared == <<rvars, vvars, mvars, pvars, ivars, parvars, xvars, tcvars>>
outsideLocked == <<rvars, vvars, mvars, pvars, ivars, parvars, xvars, covars>>
outsidePipeline == <<rvars, vvars, mret, ivars, parvars, xvars, covars, tcvars>>
vars == <<rvars, vvars, mvars, pvars, ivars, parvars, xvars, covars, tcvars>>

\* ---- values on the wire -------------------------------------------------
\* a JSON object/list returned as "result": `list` are its items when it is a
\* list of tabs, `has`/`val` the one key the caller reads ("elements", "text")
EmptyDict == [list |-> <<>>, has |-> FALSE, val |-> ""]

\* a tab of list_tabs is represented by its tab_id; "none" is a tab without one
TabVals == {"t1", "none"}

TabLists == UNION {[1..n -> TabVals] : n \in 0..MaxTabs}

Payloads(method) ==
    CASE method = "list_tabs" ->
            {[list |-> l, has |-> FALSE, val |-> ""] : l \in TabLists}
      [] method = "get_page_info" -> {[list |-> <<>>, has |-> TRUE, val |-> "info"]}
      [] method = "get_dom" -> {[list |-> <<>>, has |-> TRUE, val |-> "elems"]}
      [] method = "get_page_text" -> {[list |-> <<>>, has |-> TRUE, val |-> "text"]}
      [] OTHER -> {[list |-> <<>>, has |-> TRUE, val |-> "closed"]}

\* the error object of a response: with or without a "message" key
ErrorObjects == {[hasMessage |-> TRUE, message |-> "stale element"],
                 [hasMessage |-> FALSE, message |-> ""]}

NoError == [hasMessage |-> FALSE, message |-> ""]

\* messages the endpoint can deliver while `id` is awaited:
\* the response to it, a late response to an earlier request, an event (id 0)
Incoming(method, id) ==
    {[id |-> id, kind |-> "result", result |-> p, error |-> NoError] :
        p \in Payloads(method)}
    \cup {[id |-> id, kind |-> "noresult", result |-> EmptyDict, error |-> NoError]}
    \cup {[id |-> id, kind |-> "error", result |-> EmptyDict, error |-> e] :
        e \in ErrorObjects}
    \cup {[id |-> i, kind |-> "result", result |-> EmptyDict, error |-> NoError] :
        i \in stale \cup {0}}

\* ---- exceptions ----------------------------------------------------------
NoText == [what |-> "", method |-> "", detail |-> ""]

\* verify.py:58  resp['error'].get('message', resp['error'])
ErrorDetail(e) == IF e.hasMessage THEN e.message ELSE "repr(error)"

\* verify.py:57-59  f"{method} error: {...}"
ErrorText(method, e) ==
    [what |-> "error", method |-> method, detail |-> ErrorDetail(e)]

\* verify.py:62
NoMatchText(method) == [what |-> "no matching response", method |-> method,
                        detail |-> "10"]

\* verify.py:68
FailedAfterReconnectText(method) ==
    [what |-> "failed after reconnect", method |-> method, detail |-> ""]

\* what websockets.connect raises when the endpoint cannot be reached
ConnectExceptions == {"ConnectionRefusedError", "OSError"}

\* ---- _send_command -------------------------------------------------------
IdleFrame == [pc |-> "idle", retry |-> 0, method |-> "", params |-> "",
              msg_id |-> 0, recvN |-> 0, late |-> FALSE, trace |-> <<>>]

NewFrame(method, params) ==
    [pc |-> "get_ws", retry |-> 0, method |-> method, params |-> params,
     msg_id |-> 0, recvN |-> 0, late |-> FALSE, trace |-> <<>>]

NoMsg == [id |-> 0, kind |-> "", result |-> EmptyDict, error |-> NoError]

NoCmd == [done |-> FALSE, method |-> "", params |-> "", outcome |-> "",
          exc |-> "", text |-> NoText, result |-> EmptyDict, respId |-> 0,
          error |-> NoError, reqId |-> 0, skipped |-> 0, late |-> FALSE,
          trace |-> <<>>]

NoOp == [op |-> "", outcome |-> "", exc |-> ""]

\* verify.py:47  str(uuid4()): an id no message in flight carries
uuid4 == CHOOSE n \in 1..(Cardinality(stale) + 1) : n \notin stale

\* verify.py:26  websockets.connect(...): a new connection object; an id is
\* reused only after the connection that carried it was closed and forgotten
NewConn == CHOOSE c \in 1..(Cardinality(connOpen) + 1) : c \notin connOpen

\* the first message received is taken as the response
Matches_any(resp, msg_id) == resp.id = resp.id

\* verify.py:55  resp.get("id") == msg_id
Matches(resp, msg_id) == resp.id = msg_id

\* except Exception instead of except ConnectionClosed
Caught_any(exc) == exc = exc

\* verify.py:63  except websockets.exceptions.ConnectionClosed
Caught(exc) == exc = "ConnectionClosed"

\* the reconnect taken on every dropped connection
MayReconnect_always(retry) == retry >= 0

\* verify.py:64  if retry == 0
MayReconnect(retry) == retry = 0

\* verify.py:86, 93  result.get(key, default)
DictGet(r, default) == IF r.has THEN r.val ELSE default

\* ---- capture_state / cleanup_tabs as callers of _send_command -------------
CaptureMethods == <<"list_tabs", "get_page_info", "get_dom", "get_page_text">>

CaptureKeys == <<"tabs", "active_page_info", "dom_elements", "page_text">>

\* get_page_info left outside a try/except
capture_state_catches_from_third(k) == k > 2

\* verify.py:75-95  which of the four commands sits in a try/except Exception
capture_state_catches(k) == k > 1

\* verify.py:75-95  the value stored under key k when command k returned r
capture_state_value(k, r) ==
    CASE k = 3 -> [list |-> <<>>, has |-> TRUE, val |-> DictGet(r, "[]")]
      [] k = 4 -> [list |-> <<>>, has |-> TRUE, val |-> DictGet(r, "")]
      [] OTHER -> r

\* verify.py:81, 88, 95  the defaults {} , [] , ''
capture_state_default(k) ==
    CASE k = 3 -> [list |-> <<>>, has |-> TRUE, val |-> "[]"]
      [] k = 4 -> [list |-> <<>>, has |-> TRUE, val |-> ""]
      [] OTHER -> EmptyDict

\* verify.py:105-108  index of the next tab after position i that has a tab_id
RECURSIVE cleanup_tabs_next(_, _)
cleanup_tabs_next(ts, i) ==
    IF i + 1 > Len(ts) THEN Len(ts) + 1
    ELSE IF ts[i + 1] = "none" THEN cleanup_tabs_next(ts, i + 1)
    ELSE i + 1

\* a failed close_tab ends the loop
cleanup_tabs_after_failed_close_stops(ts, i) == Len(ts) + 1

\* verify.py:109-112  a failed close_tab is passed over: the loop goes on
cleanup_tabs_after_failed_close(ts, i) == cleanup_tabs_next(ts, i)

\* The caller's continuation once its command ended with outcome o: the new
\* values of the caller's variables and the next command, if any.
capture_state_resume(o) ==
    LET k == step
        log == Append(oplog, [method |-> o.method, params |-> o.params,
                              outcome |-> o.outcome])
    IN IF o.outcome = "raise" /\ ~capture_state_catches(k)
       THEN [vop |-> "idle", step |-> k, state |-> state, tabs |-> tabs,
             oplog |-> log,
             lastOp |-> [op |-> "capture_state", outcome |-> "raise", exc |-> o.exc],
             method |-> "", params |-> ""]
       ELSE LET v == IF o.outcome = "raise" THEN capture_state_default(k)
                     ELSE capture_state_value(k, o.result)
                st == state @@ (CaptureKeys[k] :> v)
            IN IF k < Len(CaptureMethods)
               THEN [vop |-> "capture_state", step |-> k + 1, state |-> st,
                     tabs |-> tabs, oplog |-> log, lastOp |-> lastOp,
                     method |-> CaptureMethods[k + 1], params |-> ""]
               ELSE [vop |-> "idle", step |-> k, state |-> st, tabs |-> tabs,
                     oplog |-> log,
                     lastOp |-> [op |-> "capture_state", outcome |-> "return",
                                 exc |-> ""],
                     method |-> "", params |-> ""]

cleanup_tabs_resume(o) ==
    LET log == Append(oplog, [method |-> o.method, params |-> o.params,
                              outcome |-> o.outcome])
        ts == IF step = 0 THEN o.result.list ELSE tabs
        finished == [vop |-> "idle", step |-> step, state |-> state, tabs |-> ts,
                     oplog |-> log,
                     lastOp |-> [op |-> "cleanup_tabs", outcome |-> "return",
                                 exc |-> ""],
                     method |-> "", params |-> ""]
        nxt == IF step = 0 THEN cleanup_tabs_next(ts, 0)
               ELSE IF o.outcome = "raise"
                    THEN cleanup_tabs_after_failed_close(ts, step)
                    ELSE cleanup_tabs_next(ts, step)
    IN IF step = 0 /\ o.outcome = "raise" THEN finished
       ELSE IF nxt > Len(ts) THEN finished
       ELSE [vop |-> "cleanup_tabs", step |-> nxt, state |-> state, tabs |-> ts,
             oplog |-> log, lastOp |-> lastOp,
             method |-> "close_tab", params |-> ts[nxt]]

\* _send_command ends with outcome o and control returns to the caller
Complete(o) ==
    LET r == IF vop = "capture_state" THEN capture_state_resume(o)
             ELSE cleanup_tabs_resume(o)
    IN /\ lastCmd' = o
       /\ vop' = r.vop
       /\ step' = r.step
       /\ state' = r.state
       /\ tabs' = r.tabs
       /\ oplog' = r.oplog
       /\ lastOp' = r.lastOp
       /\ calls' = calls
       /\ sc' = IF r.vop = "idle" THEN IdleFrame ELSE NewFrame(r.method, r.params)

\* the record of a finished command: m is the response that ended it, if any
Outcome(f, outcome, exc, text, m) ==
    [done |-> TRUE, method |-> f.method, params |-> f.params,
     outcome |-> outcome, exc |-> exc, text |-> text, result |-> m.result,
     respId |-> m.id, error |-> m.error, reqId |-> f.msg_id,
     skipped |-> IF text.what = "no matching response" THEN f.recvN ELSE 0,
     late |-> f.late, trace |-> f.trace]

\* verify.py:63-67  exception exc (event ev) raised inside the try of frame f
\* while handling message m
Raise(f, ev, exc, text, m) ==
    LET g == [f EXCEPT !.trace = Append(f.trace, ev)]
    IN IF Caught(exc) /\ MayReconnect(f.retry)
       THEN /\ sc' = [g EXCEPT !.pc = "reconnect"]
            /\ UNCHANGED <<callerVars, lastCmd>>
       ELSE Complete(Outcome(g, "raise", exc, text, m))

\* verify.py:70-72  capture_state() is called
capture_state ==
    /\ UNCHANGED outsideVerifier
    /\ vop = "idle"
    /\ calls < MaxCalls
    /\ calls' = calls + 1
    /\ vop' = "capture_state"
    /\ step' = 1
    /\ state' = <<>>
    /\ tabs' = <<>>
    /\ oplog' = <<>>
    /\ lastOp' = NoOp
    /\ lastCmd' = NoCmd
    /\ sc' = NewFrame(CaptureMethods[1], "")
    /\ UNCHANGED connVars

\* verify.py:99-102  cleanup_tabs() is called
cleanup_tabs ==
    /\ UNCHANGED outsideVerifier
    /\ vop = "idle"
    /\ calls < MaxCalls
    /\ calls' = calls + 1
    /\ vop' = "cleanup_tabs"
    /\ step' = 0
    /\ state' = <<>>
    /\ tabs' = <<>>
    /\ oplog' = <<>>
    /\ lastOp' = NoOp
    /\ lastCmd' = NoCmd
    /\ sc' = NewFrame("list_tabs", "")
    /\ UNCHANGED connVars

\* verify.py:114-118  close()
close ==
    /\ UNCHANGED outsideVerifier
    /\ vop = "idle"
    /\ ws # 0
    /\ connOpen' = connOpen \ {ws}
    /\ ws' = 0
    /\ stale' = {}
    /\ UNCHANGED <<callerVars, sc, lastCmd>>

\* verify.py:24-29, 46  ws = await self._get_ws()
get_ws ==
    /\ UNCHANGED outsideVerifier
    /\ sc.pc = "get_ws"
    /\ IF ws # 0
       THEN /\ sc' = [sc EXCEPT !.pc = "send"]
            /\ lastCmd' = NoCmd
            /\ UNCHANGED <<connVars, callerVars>>
       ELSE \/ /\ ws' = NewConn
               /\ connOpen' = connOpen \cup {NewConn}
               /\ stale' = {}
               /\ sc' = [sc EXCEPT !.pc = "send",
                                   !.trace = Append(sc.trace, "connect")]
               /\ lastCmd' = NoCmd
               /\ UNCHANGED callerVars
            \/ \E exc \in ConnectExceptions :
                 /\ Raise(sc, "connect_failed", exc, NoText, NoMsg)
                 /\ UNCHANGED connVars

\* verify.py:47-49  msg_id = str(uuid4()); await ws.send(...)
send ==
    /\ UNCHANGED outsideVerifier
    /\ sc.pc = "send"
    /\ LET f == [sc EXCEPT !.msg_id = uuid4, !.recvN = 0, !.late = FALSE]
       IN \/ /\ ws \in connOpen
             /\ sc' = [f EXCEPT !.pc = "recv", !.trace = Append(sc.trace, "send")]
             /\ UNCHANGED <<connVars, callerVars, lastCmd>>
          \/ /\ connOpen' = connOpen \ {ws}
             /\ stale' = {}
             /\ ws' = ws
             /\ Raise(f, "send_closed", "ConnectionClosed", NoText, NoMsg)

\* verify.py:52-62  one ws.recv() of the receive loop
recv ==
    /\ UNCHANGED outsideVerifier
    /\ sc.pc = "recv"
    /\ \/ \* a message arrives
          /\ ws \in connOpen
          /\ \E m \in Incoming(sc.method, sc.msg_id) :
               /\ stale' = stale \ {m.id}
               /\ UNCHANGED <<ws, connOpen>>
               /\ IF Matches(m, sc.msg_id)
                  THEN IF m.kind = "error"
                       THEN Raise(sc, "error", "Exception",
                                  ErrorText(sc.method, m.error), m)
                       ELSE Complete(Outcome(
                                [sc EXCEPT !.trace = Append(sc.trace, "result")],
                                "return", "", NoText, m))
                  ELSE LET f == [sc EXCEPT !.recvN = sc.recvN + 1,
                                           !.late = sc.late \/ m.id \in stale]
                       IN IF f.recvN < MAX_RECV_ATTEMPTS
                          THEN /\ sc' = f
                               /\ UNCHANGED <<callerVars, lastCmd>>
                          ELSE Raise(f, "no_match", "Exception",
                                     NoMatchText(sc.method), NoMsg)
       \/ \* asyncio.wait_for gives up: the response may still come later
          /\ ws \in connOpen
          /\ stale' = stale \cup {sc.msg_id}
          /\ UNCHANGED <<ws, connOpen>>
          /\ Raise(sc, "timeout", "TimeoutError", NoText, NoMsg)
       \/ \* the connection is closed
          /\ connOpen' = connOpen \ {ws}
          /\ stale' = {}
          /\ ws' = ws
          /\ Raise(sc, "recv_closed", "ConnectionClosed", NoText, NoMsg)

\* verify.py:31-38, 65  _reconnect: close the cached connection, forget it
reconnect_close ==
    /\ UNCHANGED outsideVerifier
    /\ sc.pc = "reconnect"
    /\ connOpen' = connOpen \ {ws}
    /\ ws' = 0
    /\ stale' = {}
    /\ sc' = [sc EXCEPT !.pc = "reconnect_connect",
                        !.trace = IF ws # 0 THEN Append(sc.trace, "close")
                                  ELSE sc.trace]
    /\ UNCHANGED <<callerVars, lastCmd>>

\* verify.py:39, 65-66, 68  _reconnect: return await self._get_ws(); continue
reconnect_connect ==
    /\ UNCHANGED outsideVerifier
    /\ sc.pc = "reconnect_connect"
    /\ \/ /\ ws' = NewConn
          /\ connOpen' = connOpen \cup {NewConn}
          /\ stale' = {}
          /\ LET g == [sc EXCEPT !.trace = Append(sc.trace, "connect"),
                                 !.retry = sc.retry + 1]
             IN IF g.retry < SEND_TRIES
                THEN /\ sc' = [g EXCEPT !.pc = "get_ws"]
                     /\ UNCHANGED <<callerVars, lastCmd>>
                ELSE Complete(Outcome(g, "raise", "Exception",
                                      FailedAfterReconnectText(sc.method),
                                      NoMsg))
       \/ \E exc \in ConnectExceptions :
            /\ UNCHANGED connVars
            /\ Complete(Outcome(
                   [sc EXCEPT !.trace = Append(sc.trace, "connect_failed")],
                   "raise", exc, NoText, NoMsg))

VerifierInit ==
    /\ ws = 0
    /\ connOpen = {}
    /\ stale = {}
    /\ calls = 0
    /\ vop = "idle"
    /\ step = 0
    /\ state = <<>>
    /\ tabs = <<>>
    /\ oplog = <<>>
    /\ lastOp = NoOp
    /\ sc = IdleFrame
    /\ lastCmd = NoCmd

VerifierNext ==
    \/ capture_state
    \/ cleanup_tabs
    \/ close
    \/ get_ws
    \/ send
    \/ recv
    \/ reconnect_close
    \/ reconnect_connect

\* ======================================================================
\*                 bench/runner.py  BenchmarkRunner.run_scenario
\* ======================================================================
\* descriptions a BrowserStateCheck can carry (two checks may share one)
Descriptions == {"a", "b"}

\* lists of descriptions up to renaming: the first check is named "a"
VerificationLists ==
    {l \in UNION {[1..n -> Descriptions] : n \in 0..MaxChecks} :
        Len(l) > 0 => l[1] = "a"}

\* call ids the agent runtime issues for tool invocations (ids are opaque:
\* the first one issued in an attempt is called 1)
ToolIds == {1, 2}

\* exceptions that can escape setup_fn, the agent stream, capture_state or a
\* check_fn; "Exception" stands for every class the runner has no clause for
BodyExceptions == {"TimeoutError", "ConnectionRefusedError", "ConnectionClosed",
                   "Exception"}

Scenarios ==
    [max_attempts : 0..MaxAttempts,
     verifications : VerificationLists,
     has_setup : BOOLEAN,
     has_teardown : BOOLEAN]

NoScenario == [max_attempts |-> 0, verifications |-> <<>>,
               has_setup |-> FALSE, has_teardown |-> FALSE]

\* runner.py:200-207  ScenarioRun(...) with its defaults
NewRun(a) == [attempt |-> a, tool_calls |-> <<>>, result_message |-> "None",
              verification_results |-> <<>>, error |-> "None",
              failure_category |-> "None"]

NoResult == [valid |-> FALSE, attempt |-> 0, passed |-> FALSE,
             failure_category |-> "None", error |-> "None",
             verification_results |-> <<>>, tool_call_count |-> 0]

\* the outcome of an attempt not yet at its finally clause
NoOutcome == [failure_category |-> "", error |-> ""]

\* what has happened in the attempt: assignments to failure_category, values
\* the predicates returned, the exception that left the body and where it was
\* raised, calls of teardown_fn, tool invocations the stream has yielded; the
\* outcome the attempt had and the number of rows stored when the finally
\* clause was entered, whether teardown_fn raised, calls of setup_fn, the call
\* id of the tool result the stream has just yielded (0: its last event was
\* no tool result)
NewAtt == [assigns |-> 0, evals |-> <<>>, exc |-> "", at |-> "",
           teardowns |-> 0, uses |-> 0, classified |-> NoOutcome,
           stored |-> 0, raised |-> FALSE, setups |-> 0, event |-> 0]

\* _build_result deriving `passed` from the error text instead of the category
build_result_passed_from_error(r) ==
    [valid |-> TRUE, attempt |-> r.attempt,
     passed |-> (r.error = "None"),
     failure_category |-> r.failure_category, error |-> r.error,
     verification_results |-> r.verification_results,
     tool_call_count |-> Len(r.tool_calls)]

\* runner.py:155-193  the RunResult _build_result makes of a ScenarioRun
build_result(r) ==
    [valid |-> TRUE, attempt |-> r.attempt,
     passed |-> (r.failure_category = "None"),
     failure_category |-> r.failure_category, error |-> r.error,
     verification_results |-> r.verification_results,
     tool_call_count |-> Len(r.tool_calls)]

\* one row per call: a later attempt takes the place of the earlier one
store_replacing(rows, rr) ==
    <<[attempt |-> rr.attempt, passed |-> rr.passed,
       failure_category |-> rr.failure_category]>>

\* metrics.py:105-137  store(result): one row is appended to the runs table
store(rows, rr) ==
    Append(rows, [attempt |-> rr.attempt, passed |-> rr.passed,
                  failure_category |-> rr.failure_category])

\* the except clauses with a lost connection taken for an infrastructure failure
except_clause_connection_lost(r, exc) ==
    CASE exc = "TimeoutError" ->
            [r EXCEPT !.error = "Scenario timed out",
                      !.failure_category = "infrastructure"]
      [] exc \in {"ConnectionRefusedError", "ConnectionClosed"} ->
            [r EXCEPT !.error = "Browser WebSocket connection refused",
                      !.failure_category = "infrastructure"]
      [] OTHER ->
            [r EXCEPT !.error = exc, !.failure_category = "agent_error"]

\* runner.py:275-286  the except clauses of the attempt body
except_clause(r, exc) ==
    CASE exc = "TimeoutError" ->
            [r EXCEPT !.error = "Scenario timed out",
                      !.failure_category = "infrastructure"]
      [] exc = "ConnectionRefusedError" ->
            [r EXCEPT !.error = "Browser WebSocket connection refused",
                      !.failure_category = "infrastructure"]
      [] OTHER ->
            [r EXCEPT !.error = exc, !.failure_category = "agent_error"]

\* the agent error check looking only for a missing summary
agent_error_check_missing_only(r) ==
    IF r.result_message = "None"
    THEN [r EXCEPT !.error = "No result message",
                   !.failure_category = "agent_error"]
    ELSE r

\* runner.py:260-264  the agent error check after the stream ended
agent_error_check(r) ==
    IF r.result_message # "ok"
    THEN [r EXCEPT !.error = IF r.result_message = "error" THEN "agent failed"
                             ELSE "No result message",
                   !.failure_category = "agent_error"]
    ELSE r

\* runner.py:270  run.verification_results[check.description] = passed
set_item(d, k, v) == [x \in DOMAIN d \cup {k} |-> IF x = k THEN v ELSE d[x]]

\* runner.py:272  all(run.verification_results.values())
all_values(d) == \A k \in DOMAIN d : d[k]

\* runner.py:272-273
verification_check(r) ==
    IF ~all_values(r.verification_results)
    THEN [r EXCEPT !.failure_category = "verification_failure"]
    ELSE r

\* the comparison of the break inverted
should_break_inverted(cat) == cat = "None" \/ cat = "infrastructure"

\* the break taken only by a passing attempt
should_break_only_pass(cat) == cat = "None"

\* runner.py:298  the break of "retry only on infrastructure failures"
should_break(cat) == cat = "None" \/ cat # "infrastructure"

\* runner.py:199  range(1, scenario.max_attempts + 1) has a value after a
has_next_attempt(a, max_attempts) == a + 1 <= max_attempts

\* the delay taken after every infrastructure failure, the last one included
should_sleep_always(a, max_attempts) == TRUE

\* runner.py:300  if attempt < scenario.max_attempts: await asyncio.sleep(2)
should_sleep(a, max_attempts) == a < max_attempts

\* an exception escapes the try body of the attempt recorded as a: the
\* matching except clause runs
body_raises_in(a, exc) ==
    /\ run' = except_clause(run, exc)
    /\ tool_calls' = <<>>
    /\ pending_tools' = [i \in ToolIds |-> 0]
    /\ att' = [a EXCEPT !.exc = exc, !.at = rpc, !.event = 0,
                        !.assigns = a.assigns + 1]
    /\ rpc' = "teardown"

\* an exception escapes the try body: the matching except clause runs
body_raises(exc) == body_raises_in(att, exc)

\* setup_fn called in the first attempt only
first_step_once(s, a) == IF s.has_setup /\ a = 1 THEN "setup" ELSE "stream"

\* runner.py:211  if scenario.setup_fn: the first step of attempt a
first_step(s, a) == IF s.has_setup THEN "setup" ELSE "stream"

\* runner.py:199-207  the loop starts attempt a
start_attempt(a) ==
    /\ attempt' = a
    /\ run' = NewRun(a)
    /\ tool_calls' = <<>>
    /\ pending_tools' = [i \in ToolIds |-> 0]
    /\ vi' = 0
    /\ att' = NewAtt
    /\ rpc' = first_step(scenario', a)

\* runner.py:195-199, 303  run_scenario(scenario) is called
run_scenario ==
    /\ UNCHANGED outsideRunner
    /\ delays' = 0
    /\ rpc = "idle"
    /\ \E s \in Scenarios :
         /\ scenario' = s
         /\ result' = NoResult
         /\ persisted' = persisted
         /\ IF has_next_attempt(0, s.max_attempts)
            THEN start_attempt(1)
            ELSE /\ rpc' = "assert_failed"
                 /\ UNCHANGED <<attempt, run, tool_calls, pending_tools, vi, att>>

\* runner.py:211-212  await scenario.setup_fn()
setup ==
    /\ UNCHANGED outsideRunner
    /\ UNCHANGED delays
    /\ rpc = "setup"
    /\ UNCHANGED <<scenario, attempt, vi, persisted, result>>
    /\ \/ /\ rpc' = "stream"
          /\ att' = [att EXCEPT !.setups = att.setups + 1]
          /\ UNCHANGED <<run, tool_calls, pending_tools>>
       \/ \E exc \in BodyExceptions :
             body_raises_in([att EXCEPT !.setups = att.setups + 1], exc)

\* runner.py:222-232  the stream yields a tool invocation
stream_tool_use ==
    /\ UNCHANGED outsideRunner
    /\ UNCHANGED delays
    /\ rpc = "stream"
    /\ Len(tool_calls) < MaxToolCalls
    /\ \E id \in ToolIds :
         /\ tool_calls = <<>> => id = 1
         /\ tool_calls' = Append(tool_calls, [tool |-> id, tool_result |-> "None"])
         /\ pending_tools' = [pending_tools EXCEPT ![id] = Len(tool_calls) + 1]
    /\ att' = [att EXCEPT !.uses = att.uses + 1, !.event = 0]
    /\ UNCHANGED <<rpc, scenario, attempt, run, vi, persisted, result>>

\* the result attached to the newest record, whatever its call id
record_of_newest(pending, id) ==
    IF \E i \in DOMAIN pending : pending[i] # 0
    THEN CHOOSE n \in {pending[i] : i \in DOMAIN pending} :
             \A i \in DOMAIN pending : pending[i] <= n
    ELSE 0

\* runner.py:235-237  record = pending_tools.get(block.tool_use_id): the index
\* of the record, 0 for None
record_of(pending, id) == pending[id]

\* runner.py:233-244  the stream yields a tool result
stream_tool_result ==
    /\ UNCHANGED outsideRunner
    /\ UNCHANGED delays
    /\ rpc = "stream"
    /\ \E id \in ToolIds :
         /\ tool_calls' =
                IF record_of(pending_tools, id) # 0
                THEN [tool_calls EXCEPT
                         ![record_of(pending_tools, id)].tool_result = "r"]
                ELSE tool_calls
         /\ att' = [att EXCEPT !.event = id]
    /\ UNCHANGED <<rpc, scenario, attempt, run, pending_tools, vi, persisted,
                   result>>

\* runner.py:245-254  the stream yields the completion summary
stream_result_message ==
    /\ UNCHANGED outsideRunner
    /\ UNCHANGED delays
    /\ rpc = "stream"
    /\ \E is_error \in BOOLEAN :
         run' = [run EXCEPT !.result_message = IF is_error THEN "error" ELSE "ok"]
    /\ att' = [att EXCEPT !.event = 0]
    /\ UNCHANGED <<rpc, scenario, attempt, tool_calls, pending_tools, vi,
                   persisted, result>>

\* runner.py:218, 275-286  the stream raises
stream_raises ==
    /\ UNCHANGED outsideRunner
    /\ UNCHANGED delays
    /\ rpc = "stream"
    /\ \E exc \in BodyExceptions : body_raises(exc)
    /\ UNCHANGED <<scenario, attempt, vi, persisted, result>>

\* runner.py:256-264  the stream ends: the tool calls are kept, the summary checked
stream_end ==
    /\ UNCHANGED outsideRunner
    /\ UNCHANGED delays
    /\ rpc = "stream"
    /\ LET r == agent_error_check([run EXCEPT !.tool_calls = tool_calls])
       IN /\ run' = r
          /\ IF r.failure_category # "None"
             THEN /\ rpc' = "teardown"
                  /\ att' = [att EXCEPT !.assigns = att.assigns + 1,
                                        !.event = 0]
             ELSE /\ rpc' = "capture"
                  /\ att' = [att EXCEPT !.event = 0]
    /\ tool_calls' = <<>>
    /\ pending_tools' = [i \in ToolIds |-> 0]
    /\ UNCHANGED <<scenario, attempt, vi, persisted, result>>

\* the loop over scenario.verifications is at its end
after_checks(r, a) ==
    LET r2 == verification_check(r)
    IN /\ run' = r2
       /\ UNCHANGED <<tool_calls, pending_tools>>
       /\ att' = IF r2.failure_category # r.failure_category
                 THEN [a EXCEPT !.assigns = a.assigns + 1] ELSE a
       /\ rpc' = "teardown"

\* runner.py:267  browser_state = await self.verifier.capture_state()
capture ==
    /\ UNCHANGED outsideRunner
    /\ UNCHANGED delays
    /\ rpc = "capture"
    /\ UNCHANGED <<scenario, attempt, persisted, result>>
    /\ \/ /\ vi' = 1
          /\ IF Len(scenario.verifications) = 0
             THEN after_checks(run, att)
             ELSE /\ rpc' = "verify"
                  /\ UNCHANGED <<run, att, tool_calls, pending_tools>>
       \/ /\ vi' = vi
          /\ \E exc \in BodyExceptions : body_raises(exc)

\* runner.py:268-273  passed = await check.check_fn(browser_state)
verify ==
    /\ UNCHANGED outsideRunner
    /\ UNCHANGED delays
    /\ rpc = "verify"
    /\ UNCHANGED <<scenario, attempt, persisted, result>>
    /\ \/ \E passed \in BOOLEAN :
            LET r == [run EXCEPT !.verification_results =
                          set_item(run.verification_results,
                                   scenario.verifications[vi], passed)]
                a == [att EXCEPT !.evals = Append(att.evals, passed)]
            IN /\ vi' = vi + 1
               /\ IF vi < Len(scenario.verifications)
                  THEN /\ run' = r
                       /\ att' = a
                       /\ rpc' = "verify"
                       /\ UNCHANGED <<tool_calls, pending_tools>>
                  ELSE after_checks(r, a)
       \/ /\ vi' = vi
          /\ \E exc \in BodyExceptions : body_raises(exc)

\* an error of teardown_fn recorded as the outcome of the attempt
teardown_error_recorded(r, raised) ==
    IF raised
    THEN [r EXCEPT !.error = "teardown failed",
                   !.failure_category = "agent_error"]
    ELSE r

\* runner.py:289-293  try: await scenario.teardown_fn()
\*                     except Exception: pass
teardown_error(r, raised) == r

\* runner.py:287-304  teardown, _build_result, the retry decision, the return
teardown ==
    /\ UNCHANGED outsideRunner
    /\ UNCHANGED delays
    /\ rpc = "teardown"
    /\ \E raised \in BOOLEAN :
         /\ raised => scenario.has_teardown
         /\ att' = [att EXCEPT !.teardowns =
                        IF scenario.has_teardown THEN att.teardowns + 1
                        ELSE att.teardowns,
                        !.classified =
                            [failure_category |-> run.failure_category,
                             error |-> run.error],
                        !.stored = Len(persisted),
                        !.raised = raised]
         /\ run' = teardown_error(run, raised)
    /\ LET rr == build_result(run')
       IN /\ result' = rr
          /\ persisted' = store(persisted, rr)
          /\ rpc' = IF should_break(run'.failure_category) THEN "done"
                    ELSE IF should_sleep(attempt, scenario.max_attempts)
                         THEN "sleep"
                    ELSE IF has_next_attempt(attempt, scenario.max_attempts)
                         THEN "loop"
                    ELSE "done"
    /\ UNCHANGED <<scenario, attempt, tool_calls, pending_tools, vi>>

\* runner.py:301, 199  await asyncio.sleep(2), then the next iteration
sleep ==
    /\ UNCHANGED outsideRunner
    /\ rpc \in {"sleep", "loop"}
    /\ delays' = IF rpc = "sleep" THEN delays + 1 ELSE delays
    /\ UNCHANGED <<scenario, persisted, result>>
    /\ IF has_next_attempt(attempt, scenario.max_attempts)
       THEN start_attempt(attempt + 1)
       ELSE /\ rpc' = "done"
            /\ UNCHANGED <<attempt, run, tool_calls, pending_tools, vi, att>>

RunnerInit ==
    /\ rpc = "idle"
    /\ delays = 0
    /\ scenario = NoScenario
    /\ attempt = 0
    /\ run = NewRun(0)
    /\ tool_calls = <<>>
    /\ pending_tools = [i \in ToolIds |-> 0]
    /\ vi = 0
    /\ persisted = <<>>
    /\ result = NoResult
    /\ att = NewAtt

RunnerNext ==
    \/ run_scenario
    \/ setup
    \/ stream_tool_use
    \/ stream_tool_result
    \/ stream_result_message
    \/ stream_raises
    \/ stream_end
    \/ capture
    \/ verify
    \/ teardown
    \/ sleep

\* ======================================================================
\*                  bench/metrics.py  MetricsCollector
\* ======================================================================
\* RunResult.scenario_id
ScenarioIds == {"s1", "s2"}

\* RunResult.total_cost_usd: a float or None
Costs == {"None", "0.01", "0.02"}

\* RunResult.timestamp
Timestamps == {1000, 1001}

\* values of the parameter last_n (10 is its default)
LastNs == {1, 2, 10}

\* the columns of a row that the queries read
RunRows == [scenario_id : ScenarioIds, passed : BOOLEAN,
            total_cost_usd : Costs, timestamp : Timestamps]

RECURSIVE gcd(_, _)
\* greatest common divisor, to keep one representation per quotient
gcd(a, b) == IF b = 0 THEN a ELSE gcd(b, a % b)

\* the float a / b (b > 0) as a fraction in lowest terms
truediv(a, b) == [num |-> a \div gcd(a, b), den |-> b \div gcd(a, b)]

\* the float 0.0
Zero == [num |-> 0, den |-> 1]

\* what a call on the collector returned; nothing before the first call
NoReturn == [call |-> "", scenario_id |-> "", last_n |-> 0, rate |-> Zero,
             costs |-> <<>>, rows |-> <<>>]

\* INSERT OR REPLACE on (scenario_id, timestamp): a row of the same scenario
\* and time is overwritten
insert_or_replace(rows, r) ==
    IF \E i \in 1..Len(rows) : rows[i].scenario_id = r.scenario_id
    THEN LET i == CHOOSE i \in 1..Len(rows) :
                      rows[i].scenario_id = r.scenario_id
         IN  [rows EXCEPT ![i] = r]
    ELSE Append(rows, r)

\* metrics.py:109-134  INSERT INTO runs: the row gets the next rowid
insert(rows, r) == Append(rows, r)

\* metrics.py:144  WHERE scenario_id = ?   (rowids of the matching rows)
where_scenario(rows, id) ==
    {i \in 1..Len(rows) : rows[i].scenario_id = id}

\* metrics.py:159-160  WHERE scenario_id = ? AND total_cost_usd IS NOT NULL
where_scenario_with_cost(rows, id) ==
    {i \in where_scenario(rows, id) : rows[i].total_cost_usd # "None"}

RECURSIVE orders(_, _, _)
\* every order of the rowids M in which the timestamps never turn against the
\* direction asked for: the next row is any of those with the extreme timestamp
orders(rows, M, desc) ==
    IF M = {}
    THEN {<<>>}
    ELSE LET first == {m \in M : \A x \in M :
                          IF desc THEN rows[m].timestamp >= rows[x].timestamp
                                  ELSE rows[m].timestamp <= rows[x].timestamp}
         IN  UNION {{<<m>> \o q : q \in orders(rows, M \ {m}, desc)} :
                        m \in first}

\* the sort turned around: oldest first
order_by_timestamp_asc(rows, M) == orders(rows, M, FALSE)

\* metrics.py:144,160  ORDER BY timestamp DESC: the orders SQLite may deliver
\* the rows M in (rows of equal timestamp come in an unspecified order)
order_by_timestamp_desc(rows, M) == orders(rows, M, TRUE)

\* metrics.py:144,160  LIMIT ?
limit(q, n) == SubSeq(q, 1, IF Len(q) < n THEN Len(q) ELSE n)

\* metrics.py:150-152  0.0 for no row, else passed rows / fetched rows
pass_rate(rows, fetched) ==
    IF Len(fetched) = 0
    THEN Zero
    ELSE truediv(Cardinality({i \in 1..Len(fetched) : rows[fetched[i]].passed}),
                 Len(fetched))

\* the fetched rows left in the order of the query
not_reversed(q) == q

\* metrics.py:166  reversed(rows)
reversed(q) == [i \in 1..Len(q) |-> q[Len(q) + 1 - i]]

\* metrics.py:166  the cost column of the fetched rows, turned around
cost_trend(rows, fetched) ==
    LET back == reversed(fetched)
    IN  [i \in 1..Len(back) |-> rows[back[i]].total_cost_usd]

\* metrics.py:105-137  store(result)
metrics_store ==
    /\ UNCHANGED outsideMetrics
    /\ Len(runs) < MaxRuns
    /\ \E r \in RunRows : runs' = insert(runs, r)
    /\ mret' = [NoReturn EXCEPT !.call = "store"]

\* metrics.py:139-152  get_pass_rate(scenario_id, last_n)
get_pass_rate ==
    /\ UNCHANGED outsideMetrics
    /\ \E id \in ScenarioIds, n \in LastNs :
         \E q \in order_by_timestamp_desc(runs, where_scenario(runs, id)) :
            mret' = [NoReturn EXCEPT !.call = "get_pass_rate",
                                     !.scenario_id = id, !.last_n = n,
                                     !.rate = pass_rate(runs, limit(q, n))]
    /\ UNCHANGED runs

\* metrics.py:154-166  get_cost_trend(scenario_id, last_n)
get_cost_trend ==
    /\ UNCHANGED outsideMetrics
    /\ \E id \in ScenarioIds, n \in LastNs :
         \E q \in order_by_timestamp_desc(runs,
                                          where_scenario_with_cost(runs, id)) :
            mret' = [NoReturn EXCEPT !.call = "get_cost_trend",
                                     !.scenario_id = id, !.last_n = n,
                                     !.costs = cost_trend(runs, limit(q, n))]
    /\ UNCHANGED runs

\* values of the parameters of get_recent_runs: a scenario or None (""), and
\* last_n (20 is its default)
RecentIds == {""} \cup ScenarioIds

RecentNs == {1, 20}

\* metrics.py:168-188  get_recent_runs(scenario_id, last_n): the rowids of
\* the rows returned, newest first
get_recent_runs ==
    /\ UNCHANGED outsideMetrics
    /\ \E id \in RecentIds, n \in RecentNs :
         \E q \in order_by_timestamp_desc(runs,
                      IF id = "" THEN 1..Len(runs)
                      ELSE where_scenario(runs, id)) :
            mret' = [NoReturn EXCEPT !.call = "get_recent_runs",
                                     !.scenario_id = id, !.last_n = n,
                                     !.rows = limit(q, n)]
    /\ UNCHANGED runs

\* metrics.py:49-103  a collector on a fresh database file
MetricsInit ==
    /\ runs = <<>>
    /\ mret = NoReturn

MetricsNext ==
    \/ metrics_store
    \/ get_pass_rate
    \/ get_cost_trend

\* ======================================================================
\*                    bench/report.py  ReportGenerator
\* ======================================================================
\* RunResult.category
ScenarioCategories == {"navigation", "form_filling"}

\* the fields of a RunResult that generate reads (cost and duration, which
\* it only sums, are left out)
SuiteResults ==
    {r \in [scenario_id : ScenarioIds, category : ScenarioCategories,
            passed : BOOLEAN, failure_category : {"None", "agent_error"},
            error : {"None", "fail"}] :
        /\ r.passed <=> r.failure_category = "None"
        /\ r.passed <=> r.error = "None"}

\* the lists of RunResults handed to generate
ResultLists == UNION {[1..n -> SuiteResults] : n \in 0..MaxResults}

\* a row of an earlier run, the i-th of its table
HistoryRow(id, i, passed) ==
    [scenario_id |-> id, passed |-> passed, total_cost_usd |-> "None",
     timestamp |-> 1000 + i]

\* a table of n earlier runs of "s1", those of the rowids in P passed, and
\* after them one passed run of "s2"
History(n, P) ==
    [i \in 1..(n + 1) |-> IF i <= n THEN HistoryRow("s1", i, i \in P)
                                    ELSE HistoryRow("s2", i, TRUE)]

\* the databases generate is run on: a fresh one, and ones with 10 runs of
\* "s1" of which 6, 7 or 8 passed, and one with 11 runs whose 10 newest hold 7
\* passed ones and whose oldest passed too
HistoryTables ==
    {<<>>, History(10, 1..6), History(10, 1..7), History(10, 1..8),
     History(11, {1} \cup 5..11)}

NoReport == [done |-> FALSE, results |-> <<>>, total |-> 0, passed |-> 0,
             failed |-> 0, pass_rate |-> Zero, by_category |-> <<>>,
             failures |-> <<>>, regressions |-> <<>>]

\* report.py:81  the floats get_pass_rate(scenario_id) may return
historical_rates(rows, id) ==
    {pass_rate(rows, limit(q, DEFAULT_LAST_N)) :
        q \in order_by_timestamp_desc(rows, where_scenario(rows, id))}

\* the comparison with >= in place of >
reaches(rate, threshold) ==
    rate.num * threshold.den >= threshold.num * rate.den

\* report.py:82  historical_rate > 0.7
exceeds(rate, threshold) ==
    rate.num * threshold.den > threshold.num * rate.den

\* the failed results counted in place of the passed ones
count_failed(results) ==
    Cardinality({i \in 1..Len(results) : ~results[i].passed})

\* report.py:41  sum(1 for r in results if r.passed)
count_passed(results) ==
    Cardinality({i \in 1..Len(results) : results[i].passed})

\* report.py:47-61  by_category: total and passed of each category present
by_category(results) ==
    [c \in {results[i].category : i \in 1..Len(results)} |->
        LET of_c == {i \in 1..Len(results) : results[i].category = c}
        IN  [total |-> Cardinality(of_c),
             passed |-> Cardinality({i \in of_c : results[i].passed})]]

RECURSIVE failures(_, _)
\* report.py:64-75  one entry per failed result, from the i-th on
failures(results, i) ==
    IF i > Len(results)
    THEN <<>>
    ELSE (IF results[i].passed
          THEN <<>>
          ELSE <<[scenario_id |-> results[i].scenario_id,
                  category |-> results[i].failure_category,
                  error |-> results[i].error]>>)
         \o failures(results, i + 1)

RECURSIVE regressions(_, _, _)
\* report.py:78-89  the regressions loop from the i-th result on; rates[i] is
\* what get_pass_rate returned for the i-th result
regressions(results, rates, i) ==
    IF i > Len(results)
    THEN <<>>
    ELSE (IF ~results[i].passed /\ exceeds(rates[i], REGRESSION_RATE)
          THEN <<[scenario_id |-> results[i].scenario_id,
                  historical_pass_rate |-> rates[i],
                  error |-> results[i].error]>>
          ELSE <<>>)
         \o regressions(results, rates, i + 1)

\* report.py:91-104  the SuiteReport returned
suite_report(results, rates) ==
    LET total == Len(results)
        passed == count_passed(results)
    IN  [done |-> TRUE, results |-> results, total |-> total,
         passed |-> passed, failed |-> total - passed,
         pass_rate |-> IF total > 0 THEN truediv(passed, total) ELSE Zero,
         by_category |-> by_category(results),
         failures |-> failures(results, 1),
         regressions |-> regressions(results, rates, 1)]

\* report.py:36-104  generate(results), called once on the list at hand
generate ==
    /\ UNCHANGED outsideReport
    /\ ~report.done
    /\ LET results == report.results
       IN  \E rates \in [1..Len(results) ->
                          UNION {historical_rates(runs, id) : id \in ScenarioIds}] :
              /\ \A i \in 1..Len(results) :
                    rates[i] \in historical_rates(runs, results[i].scenario_id)
              /\ report' = suite_report(results, rates)

\* report.py:33-34  a ReportGenerator over the collector of a database, and
\* the list of results it is about to be called on
ReportInit ==
    /\ runs \in HistoryTables
    /\ mret = NoReturn
    /\ report \in {[NoReport EXCEPT !.results = rs] : rs \in ResultLists}

ReportNext == generate

\* ======================================================================
\*                        bench/cli.py  cmd_run
\* ======================================================================
\* cmd_run: run_scenario for each scenario of the suite, every attempt stored
\* by _build_result as it ends, then generate on the results returned.

\* time.time() when cmd_run starts: later than every run stored before
BATCH_START == 2000

\* the databases cmd_run starts on: a fresh one, and ones with 1, 3 or 10
\* earlier runs of "s1", all passed but for 2 of the 10 in one of them
PriorTables ==
    {<<>>, History(1, {1}), History(3, 1..3), History(10, 1..8),
     History(10, 1..10)}

\* what the attempts of one run_scenario call can have been: every attempt
\* before the last an infrastructure failure (runner.py:298)
AttemptLists ==
    {l \in UNION {[1..n -> BOOLEAN] : n \in 1..MaxAttempts} :
        \A i \in 1..(Len(l) - 1) : ~l[i]}

RECURSIVE store_attempts(_, _, _, _)
\* runner.py:192  collector.store(result) at the end of each attempt, from the
\* i-th on: the row is stamped with the time the attempt started
store_attempts(rows, id, l, i) ==
    IF i > Len(l)
    THEN rows
    ELSE store_attempts(
             insert(rows, [scenario_id |-> id, passed |-> l[i],
                           total_cost_usd |-> "None",
                           timestamp |-> BATCH_START + Len(rows) + 1]),
             id, l, i + 1)

\* runner.py:303-304  the RunResult run_scenario returns: that of the last
\* attempt
returned_result(id, l) ==
    [scenario_id |-> id, category |-> "navigation", passed |-> l[Len(l)],
     failure_category |-> IF l[Len(l)] THEN "None" ELSE "agent_error",
     error |-> IF l[Len(l)] THEN "None" ELSE "fail"]

\* cli.py:97-143  one turn of the loop over the scenarios of the suite
cmd_run_scenario ==
    /\ UNCHANGED outsidePipeline
    /\ ~report.done
    /\ Len(report.results) < MaxResults
    /\ \E id \in ScenarioIds, l \in AttemptLists :
          /\ \A i \in 1..Len(report.results) :
                report.results[i].scenario_id # id
          /\ runs' = store_attempts(runs, id, l, 1)
          /\ report' = [report EXCEPT !.results =
                            Append(report.results, returned_result(id, l))]

\* cli.py:79-85  the collector of the database, nothing run yet
PipelineInit ==
    /\ runs \in PriorTables
    /\ mret = NoReturn
    /\ report = NoReport

\* cli.py:96-147  cmd_run
PipelineNext ==
    \/ cmd_run_scenario
    \/ generate

\* cmd_run with the queries of the collector made at any point of it
DatabaseNext ==
    \/ cmd_run_scenario
    \/ get_pass_rate
    \/ get_cost_trend
    \/ get_recent_runs
    \/ generate

\* ======================================================================
\*                     bench/improve.py  SelfImprover
\* ======================================================================
\* A str is the sequence of its characters (TLC cannot look inside a string
\* value); None is a value that is no sequence of characters.
None == <<"None">>

ascii_uppercase ==
    <<"A", "B", "C", "D", "E", "F", "G", "H", "I", "J", "K", "L", "M", "N",
      "O", "P", "Q", "R", "S", "T", "U", "V", "W", "X", "Y", "Z">>

ascii_lowercase ==
    <<"a", "b", "c", "d", "e", "f", "g", "h", "i", "j", "k", "l", "m", "n",
      "o", "p", "q", "r", "s", "t", "u", "v", "w", "x", "y", "z">>

\* str.lower(): every upper-case letter becomes its lower-case letter
lower(s) ==
    [i \in 1..Len(s) |->
        IF \E k \in 1..26 : ascii_uppercase[k] = s[i]
        THEN ascii_lowercase[CHOOSE k \in 1..26 : ascii_uppercase[k] = s[i]]
        ELSE s[i]]

\* `sub in s`: sub occurs in s as a contiguous run of characters
contains(s, sub) ==
    \E i \in 0..(Len(s) - Len(sub)) : \A j \in 1..Len(sub) : s[i + j] = sub[j]

\* str.replace(" ", "_")
replace_spaces(s) == [i \in 1..Len(s) |-> IF s[i] = " " THEN "_" ELSE s[i]]

\* s[:n]
head(s, n) == SubSeq(s, 1, IF Len(s) < n THEN Len(s) ELSE n)

\* improve.py:123-132  the list the loop of _error_signature goes through
prefixes ==
    <<<<"t", "a", "b", " ", "n", "o", "t", " ", "f", "o", "u", "n", "d">>,
      <<"t", "i", "m", "e", "d", " ", "o", "u", "t">>,
      <<"t", "i", "m", "e", "o", "u", "t">>,
      <<"c", "o", "n", "n", "e", "c", "t", "i", "o", "n", " ", "r", "e", "f", "u", "s", "e", "d">>,
      <<"e", "l", "e", "m", "e", "n", "t", " ", "i", "n", "d", "e", "x">>,
      <<"n", "o", " ", "e", "l", "e", "m", "e", "n", "t", " ", "a", "t">>,
      <<"p", "a", "g", "e", " ", "n", "o", "t", " ", "l", "o", "a", "d", "e", "d">>,
      <<"c", "a", "n", "n", "o", "t", " ", "a", "c", "c", "e", "s", "s">>>>

no_error ==
    <<"n", "o", "_", "e", "r", "r", "o", "r">>

\* the entry found first when reading sig from the left, from the k-th entry
\* of the list on
earliest_prefix(sig, k) ==
    LET hits == {j \in k..Len(prefixes) : contains(sig, prefixes[j])}
        at(j) == CHOOSE i \in 1..Len(sig) :
                    /\ SubSeq(sig, i, i + Len(prefixes[j]) - 1) = prefixes[j]
                    /\ \A h \in 1..(i - 1) :
                          SubSeq(sig, h, h + Len(prefixes[j]) - 1) # prefixes[j]
    IN  IF hits = {}
        THEN <<>>
        ELSE prefixes[CHOOSE j \in hits : \A h \in hits : at(j) <= at(h)]

RECURSIVE first_prefix(_, _)
\* improve.py:123-134  the loop from the k-th entry of the list on: the first
\* entry that occurs in sig, or <<>> when none does
first_prefix(sig, k) ==
    IF k > Len(prefixes)
    THEN <<>>
    ELSE IF contains(sig, prefixes[k])
         THEN prefixes[k]
         ELSE first_prefix(sig, k + 1)

\* improve.py:119-135  _error_signature(error)
error_signature(error) ==
    IF error = None \/ error = <<>>
    THEN no_error
    ELSE LET sig == lower(error)
             prefix == first_prefix(sig, 1)
         IN  IF prefix # <<>>
             THEN replace_spaces(prefix)
             ELSE head(sig, SIGNATURE_LENGTH)

\* fragments error messages are put together from: the texts the list knows,
\* in the spellings the browser and the runner use, and other text
Pieces ==
    {<<"T", "a", "b", " ", "n", "o", "t", " ", "f", "o", "u", "n", "d">>,
     <<"t", "i", "m", "e", "d", " ", "o", "u", "t">>,
     <<"T", "i", "m", "e", "o", "u", "t">>,
     <<"C", "o", "n", "n", "e", "c", "t", "i", "o", "n", " ", "r", "e", "f", "u", "s", "e", "d">>,
     <<"E", "l", "e", "m", "e", "n", "t", " ", "i", "n", "d", "e", "x">>,
     <<"n", "o", " ", "e", "l", "e", "m", "e", "n", "t", " ", "a", "t">>,
     <<"P", "a", "g", "e", " ", "n", "o", "t", " ", "l", "o", "a", "d", "e", "d">>,
     <<"c", "a", "n", "n", "o", "t", " ", "a", "c", "c", "e", "s", "s">>,
     <<":", " ">>,
     <<"x", "y", "z">>,
     <<"A", "B", "C", "D", "E", "F", "G", "H", "I", "J", "K", "L", "M", "N", "O", "P", "Q", "R", "S", "T", "U", "V", "W", "X", "Y", "Z">>}

RECURSIVE Texts(_)
\* the texts made of at most n fragments
Texts(n) ==
    IF n = 0
    THEN {<<>>}
    ELSE Texts(n - 1) \cup {t \o p : t \in Texts(n - 1), p \in Pieces}

\* RunResult.error: None or a text
ErrorTexts == {None} \cup Texts(MaxPieces)

NoSignature == [done |-> FALSE, error |-> None, signature |-> <<>>]

\* improve.py:52  self._error_signature(r.error), called once on the error
\* at hand
call_error_signature ==
    /\ UNCHANGED outsideSignature
    /\ ~signed.done
    /\ signed' = [signed EXCEPT !.done = TRUE,
                                !.signature = error_signature(signed.error)]

SignatureNext == call_error_signature

\* ---- analyze_failures / generate_tasks -------------------------------------
\* values of RunResult.failure_category (runner.py:279-296)
agent_error ==
    <<"a", "g", "e", "n", "t", "_", "e", "r", "r", "o", "r">>

infrastructure ==
    <<"i", "n", "f", "r", "a", "s", "t", "r", "u", "c", "t", "u", "r", "e">>

verification_failure ==
    <<"v", "e", "r", "i", "f", "i", "c", "a", "t", "i", "o", "n", "_", "f",
      "a", "i", "l", "u", "r", "e">>

\* improve.py:51  the category of a failure that has none
unknown ==
    <<"u", "n", "k", "n", "o", "w", "n">>

\* error messages of failed runs
Connection_refused ==
    <<"C", "o", "n", "n", "e", "c", "t", "i", "o", "n", " ", "r", "e", "f",
      "u", "s", "e", "d">>

connection_refused_again ==
    <<"c", "o", "n", "n", "e", "c", "t", "i", "o", "n", " ", "r", "e", "f",
      "u", "s", "e", "d", " ", "a", "g", "a", "i", "n">>

\* improve.py:137-224  a text the helpers look for in the pattern name
in_timeout ==
    <<"t", "i", "m", "e", "o", "u", "t">>

in_timed_out ==
    <<"t", "i", "m", "e", "d", "_", "o", "u", "t">>

in_connection_refused ==
    <<"c", "o", "n", "n", "e", "c", "t", "i", "o", "n", "_", "r", "e", "f",
      "u", "s", "e", "d">>

in_element_index ==
    <<"e", "l", "e", "m", "e", "n", "t", "_", "i", "n", "d", "e", "x">>

in_no_element ==
    <<"n", "o", "_", "e", "l", "e", "m", "e", "n", "t">>

in_page_not_loaded ==
    <<"p", "a", "g", "e", "_", "n", "o", "t", "_", "l", "o", "a", "d", "e",
      "d">>

in_cannot_access ==
    <<"c", "a", "n", "n", "o", "t", "_", "a", "c", "c", "e", "s", "s">>

in_element ==
    <<"e", "l", "e", "m", "e", "n", "t">>

in_verification ==
    <<"v", "e", "r", "i", "f", "i", "c", "a", "t", "i", "o", "n">>

in_connection ==
    <<"c", "o", "n", "n", "e", "c", "t", "i", "o", "n">>

\* the failed runs explored: scenario, category and error
Failures ==
    {<<"s2", infrastructure, Connection_refused>>,
     <<"s1", infrastructure, connection_refused_again>>,
     <<"s2", agent_error, None>>}

\* the fields of a RunResult that the improver reads; a passed run has
\* neither category nor error (runner.py:298-312)
ImproveResults ==
    {[scenario_id |-> "s1", passed |-> TRUE, failure_category |-> None,
      error |-> None]}
    \cup {[scenario_id |-> f[1], passed |-> FALSE, failure_category |-> f[2],
           error |-> f[3]] : f \in Failures}

\* the lists of RunResults handed to analyze_failures
ImproveLists == UNION {[1..n -> ImproveResults] : n \in 0..MaxFailures}

\* the key with the signature left out
pattern_key_by_category(r) ==
    IF r.failure_category = None THEN unknown ELSE r.failure_category

\* improve.py:51-52  f"{category}:{self._error_signature(r.error)}"
pattern_key(r) ==
    (IF r.failure_category = None THEN unknown ELSE r.failure_category)
        \o <<":">> \o error_signature(r.error)

\* improve.py:54-67  one failed result added to the dict `patterns` (a dict
\* keeps its keys in the order they were first inserted)
add_failure(patterns, r) ==
    LET key == pattern_key(r)
        known == \E i \in 1..Len(patterns) : patterns[i].pattern_name = key
        ps == IF known
              THEN patterns
              ELSE Append(patterns,
                          [pattern_name |-> key, frequency |-> 0,
                           affected_scenarios |-> <<>>,
                           example_errors |-> <<>>,
                           root_cause_hypothesis |-> ""])
        i == CHOOSE j \in 1..Len(ps) : ps[j].pattern_name = key
        p == ps[i]
    IN  [ps EXCEPT ![i] =
            [p EXCEPT !.frequency = p.frequency + 1,
                      !.affected_scenarios =
                          Append(p.affected_scenarios, r.scenario_id),
                      !.example_errors =
                          IF Len(p.example_errors) < MAX_EXAMPLES
                          THEN Append(p.example_errors,
                                      IF r.error = None THEN <<>> ELSE r.error)
                          ELSE p.example_errors]]

RECURSIVE collect(_, _, _)
\* improve.py:47-67  the loop over the results from the i-th on
collect(results, i, patterns) ==
    IF i > Len(results)
    THEN patterns
    ELSE collect(results, i + 1,
                 IF results[i].passed
                 THEN patterns
                 ELSE add_failure(patterns, results[i]))

\* improve.py:137-164  _hypothesize(pattern) (the first sentence of the text)
hypothesize(name) ==
    IF contains(name, in_timeout) \/ contains(name, in_timed_out)
    THEN "Pages loading slowly or WebSocket responses timing out."
    ELSE IF contains(name, in_connection_refused)
    THEN "Browser WebSocket server not running or port conflict."
    ELSE IF contains(name, in_element_index) \/ contains(name, in_no_element)
    THEN "DOM changed between get_dom and click."
    ELSE IF contains(name, verification_failure)
    THEN "Agent completed without errors but browser state doesn't match."
    ELSE IF contains(name, in_page_not_loaded)
            \/ contains(name, in_cannot_access)
    THEN "Page content not accessible"
    ELSE "Unknown pattern"

RECURSIVE sorted_by_frequency(_)
\* improve.py:73-75  sorted(..., key=frequency, reverse=True): a stable sort,
\* patterns of equal frequency keep their order
sorted_by_frequency(patterns) ==
    IF patterns = <<>>
    THEN <<>>
    ELSE LET i == CHOOSE j \in 1..Len(patterns) :
                     /\ \A k \in 1..Len(patterns) :
                           patterns[k].frequency <= patterns[j].frequency
                     /\ \A k \in 1..(j - 1) :
                           patterns[k].frequency < patterns[j].frequency
         IN  <<patterns[i]>>
             \o sorted_by_frequency(SubSeq(patterns, 1, i - 1)
                                    \o SubSeq(patterns, i + 1, Len(patterns)))

\* the dict `patterns` kept from the call before
failure_patterns_kept(results) ==
    LET found == collect(results, 1, cycle.patterns)
    IN  sorted_by_frequency(
            [i \in 1..Len(found) |->
                [found[i] EXCEPT !.root_cause_hypothesis =
                                     hypothesize(found[i].pattern_name)]])

\* improve.py:41-75  what analyze_failures(results) returns
failure_patterns(results) ==
    LET found == collect(results, 1, <<>>)
    IN  sorted_by_frequency(
            [i \in 1..Len(found) |->
                [found[i] EXCEPT !.root_cause_hypothesis =
                                     hypothesize(found[i].pattern_name)]])

\* critical only above three occurrences
priority_above(frequency) ==
    IF frequency > 3 THEN "critical"
    ELSE IF frequency >= 2 THEN "high" ELSE "medium"

\* improve.py:87-93  priority
priority_of(frequency) ==
    IF frequency >= 3 THEN "critical"
    ELSE IF frequency >= 2 THEN "high" ELSE "medium"

\* the decimal digits
digits == <<"0", "1", "2", "3", "4", "5", "6", "7", "8", "9">>

RECURSIVE decimal(_)
\* str(n) for n >= 0
decimal(n) ==
    IF n < 10
    THEN <<digits[n + 1]>>
    ELSE decimal(n \div 10) \o <<digits[(n % 10) + 1]>>

RECURSIVE zero_padded(_, _)
\* format spec 03d: zeros in front up to the width
zero_padded(s, width) ==
    IF Len(s) >= width THEN s ELSE zero_padded(<<"0">> \o s, width)

\* improve.py:97  f"imp-{i + 1:03d}"
task_id(i) == <<"i", "m", "p", "-">> \o zero_padded(decimal(i + 1), ID_WIDTH)

\* improve.py:166-176  _task_title(pattern)
task_title(name) ==
    IF contains(name, in_timeout) \/ contains(name, in_timed_out)
    THEN [text |-> "Increase timeout handling and add wait strategies",
          name |-> <<>>]
    ELSE IF contains(name, in_element)
    THEN [text |-> "Improve DOM interaction reliability", name |-> <<>>]
    ELSE IF contains(name, in_verification)
    THEN [text |-> "Improve agent prompting for scenario completion",
          name |-> <<>>]
    ELSE IF contains(name, in_connection)
    THEN [text |-> "Improve WebSocket connection resilience", name |-> <<>>]
    ELSE [text |-> "Fix: ", name |-> name]

\* improve.py:178-186  _task_description(pattern): what the text is made of
task_description(pattern) ==
    [pattern |-> pattern.pattern_name, frequency |-> pattern.frequency,
     affected |-> pattern.affected_scenarios,
     hypothesis |-> pattern.root_cause_hypothesis,
     examples |-> pattern.example_errors]

\* improve.py:188-196  _task_category(pattern)
task_category(name) ==
    IF \/ contains(name, in_timeout) \/ contains(name, in_timed_out)
       \/ contains(name, in_connection)
    THEN "test_infra"
    ELSE IF contains(name, in_element)
    THEN "browser_agent"
    ELSE IF contains(name, in_verification)
    THEN "prompt_engineering"
    ELSE "mcp_server"

\* improve.py:198-224  _suggest_changes(pattern)
suggest_changes(name) ==
    IF contains(name, in_timeout) \/ contains(name, in_timed_out)
    THEN <<"Add wait_for_load after every navigate",
           "Increase browser_command timeout from 30s to 45s",
           "Add retry logic in the MCP server for transient failures">>
    ELSE IF contains(name, in_element)
    THEN <<"Instruct agent to always call get_dom immediately before clicking",
           "Add element staleness detection with auto-recovery",
           "Consider adding a 'click_by_text' tool that combines get_dom + click">>
    ELSE IF contains(name, in_verification)
    THEN <<"Improve scenario prompts to be more specific about expected outcomes",
           "Add intermediate verification steps in multi-step scenarios",
           "Use append_system_prompt to add verification instructions">>
    ELSE IF contains(name, in_connection)
    THEN <<"Add WebSocket reconnection logic in the MCP server",
           "Ensure browser is running before starting benchmarks",
           "Add health check command before each scenario">>
    ELSE <<"Manual investigation required">>

RECURSIVE improvement_tasks(_, _)
\* improve.py:77-108  the loop of generate_tasks from the i-th pattern on (i
\* counts from 1 where enumerate counts from 0)
improvement_tasks(patterns, i) ==
    IF i > Len(patterns)
    THEN <<>>
    ELSE (IF patterns[i].frequency = 0
          THEN <<>>
          ELSE <<[id |-> task_id(i - 1),
                  title |-> task_title(patterns[i].pattern_name),
                  description |-> task_description(patterns[i]),
                  category |-> task_category(patterns[i].pattern_name),
                  priority |-> priority_of(patterns[i].frequency),
                  related_scenarios |-> patterns[i].affected_scenarios,
                  suggested_changes |->
                      suggest_changes(patterns[i].pattern_name),
                  estimated_impact |-> patterns[i].frequency]>>)
         \o improvement_tasks(patterns, i + 1)

\* a FailurePattern no failure has been counted into
EmptyPattern ==
    [pattern_name |-> unknown \o <<":">> \o no_error, frequency |-> 0,
     affected_scenarios |-> <<>>, example_errors |-> <<>>,
     root_cause_hypothesis |-> ""]

\* no call yet
NoCycle == [stage |-> "none", rows |-> 0, results |-> <<>>, patterns |-> <<>>,
            given |-> <<>>, tasks |-> <<>>]

\* improve.py:41-75  analyze_failures(results): the first call on any list,
\* and after a whole cycle (improve.py:110-115) a second call on that list;
\* `earlier` keeps the first cycle
analyze_failures ==
    /\ UNCHANGED outsideImprove
    /\ \/ cycle.stage = "none"
       \/ /\ cycle.stage = "tasks"
          /\ cycle.given = cycle.patterns
          /\ earlier.stage = "none"
    /\ \E results \in (IF cycle.stage = "none" THEN ImproveLists
                                              ELSE {cycle.results}) :
          cycle' = [NoCycle EXCEPT !.stage = "analyzed",
                                   !.rows = Len(runs),
                                   !.results = results,
                                   !.patterns = failure_patterns(results)]
    /\ earlier' = cycle
    /\ UNCHANGED <<mvars, signed>>

\* improve.py:77-108  generate_tasks(patterns), with the patterns that
\* analyze_failures returned (as run_improvement_cycle does, improve.py:110-115)
\* or with those behind a pattern of frequency 0
generate_tasks ==
    /\ UNCHANGED outsideImprove
    /\ cycle.stage = "analyzed"
    /\ \E given \in {cycle.patterns, <<EmptyPattern>> \o cycle.patterns} :
          cycle' = [cycle EXCEPT !.stage = "tasks", !.given = given,
                                 !.tasks = improvement_tasks(given, 1)]
    /\ UNCHANGED <<earlier, mvars, signed>>

\* metrics.py:105-137  another process stores a failed run of "s1" in the
\* database of the improver's collector
store_between_cycles ==
    /\ UNCHANGED outsideImprove
    /\ cycle.stage = "tasks"
    /\ runs = <<>>
    /\ runs' = insert(runs, HistoryRow("s1", Len(runs) + 1, FALSE))
    /\ UNCHANGED <<mret, signed, cycle, earlier>>

ImproveNext ==
    \/ analyze_failures
    \/ generate_tasks
    \/ store_between_cycles

\* ---- generate_tasks on the patterns of one failure ---------------------------
\* an agent message that none of the entries of the signature list is in
Lost_connection_to_element ==
    <<"L", "o", "s", "t", " ", "c", "o", "n", "n", "e", "c", "t", "i", "o",
      "n", " ", "t", "o", " ", "e", "l", "e", "m", "e", "n", "t">>

\* runner.py:277, 281  the error texts of the two infrastructure clauses
Scenario_timed_out ==
    <<"S", "c", "e", "n", "a", "r", "i", "o", " ", "t", "i", "m", "e", "d",
      " ", "o", "u", "t">>

Browser_WebSocket_connection_refused ==
    <<"B", "r", "o", "w", "s", "e", "r", " ", "W", "e", "b", "S", "o", "c",
      "k", "e", "t", " ", "c", "o", "n", "n", "e", "c", "t", "i", "o", "n",
      " ", "r", "e", "f", "u", "s", "e", "d">>

\* the failed runs run_scenario can return: an agent_error with the agent's
\* message or the text of an exception, an infrastructure failure with one of
\* its two texts, a verification_failure without error text
TaskFailures ==
    {<<agent_error, e>> : e \in ErrorTexts \cup {Lost_connection_to_element}}
    \cup {<<infrastructure, Scenario_timed_out>>,
          <<infrastructure, Browser_WebSocket_connection_refused>>,
          <<verification_failure, None>>}

\* improve.py:110-113  analyze_failures has returned the patterns of a list
\* of one failed run
TasksInit ==
    /\ signed = NoSignature
    /\ earlier = NoCycle
    /\ \E f \in TaskFailures :
          LET results == <<[scenario_id |-> "s1", passed |-> FALSE,
                            failure_category |-> f[1], error |-> f[2]]>>
          IN  cycle = [NoCycle EXCEPT !.stage = "analyzed",
                                      !.results = results,
                                      !.patterns = failure_patterns(results)]

\* improve.py:114  tasks = self.generate_tasks(patterns)
TasksNext == generate_tasks

\* ======================================================================
\*                  bench/parallel_test.py  run_parallel
\* ======================================================================
\* Two run_scenario calls under asyncio.gather. Of run_scenario this keeps the
\* commands it has its verifier send (each failure of one is tolerated, as by
\* capture_state and cleanup_tabs), the store and the return; of
\* _send_command the connections stay open (a dropped connection is explored
\* in SpecVerifier).

\* parallel_test.py:105-106  runner_a, runner_b
Workers == {"a", "b"}

\* parallel_test.py:88-89  the scenario each runner is given
scenario_of(w) == IF w = "a" THEN "li-001" ELSE "amz-001"

\* one verifier for both runners
verifier_shared(w) == "a"

\* parallel_test.py:103-106  the BrowserVerifier of a runner: verifier_a for
\* runner_a, verifier_b for runner_b
verifier_of(w) == w

NoId == <<"", 0>>

NoMessage == [valid |-> FALSE, conn |-> 0, from |-> "", id |-> NoId]

IdleWorker == [pc |-> "idle", left |-> 0, msg_id |-> NoId, recvN |-> 0,
               got |-> NoMessage, returned |-> NoId, result |-> ""]

\* verify.py:24-27  websockets.connect: a connection no verifier holds yet
par_connect == CHOOSE c \in 1..2 : \A v \in Workers : pws[v] # c

\* verify.py:47  str(uuid4()): an id no other call is given
par_uuid4(w) == <<w, pnext[w] + 1>>

\* verify.py:70-97  after a command has returned or raised: the next command,
\* or on to the store
par_after_command(f) ==
    IF f.left > 1
    THEN [f EXCEPT !.pc = "get_ws", !.left = f.left - 1]
    ELSE [f EXCEPT !.pc = "store", !.left = 0]

\* parallel_test.py:115-119  asyncio.gather starts run_scenario of a worker
par_run_scenario(w) ==
    /\ UNCHANGED outsideParallel
    /\ par[w].pc = "idle"
    /\ \E n \in 1..MaxCommands :
          par' = [par EXCEPT ![w] = [IdleWorker EXCEPT !.pc = "get_ws",
                                                       !.left = n]]
    /\ UNCHANGED <<pws, chan, requests, pnext, pstored>>

\* verify.py:20-29  _get_ws of the worker's verifier
par_get_ws(w) ==
    /\ UNCHANGED outsideParallel
    /\ par[w].pc = "get_ws"
    /\ pws' = IF pws[verifier_of(w)] = 0
              THEN [pws EXCEPT ![verifier_of(w)] = par_connect]
              ELSE pws
    /\ par' = [par EXCEPT ![w].pc = "send"]
    /\ UNCHANGED <<chan, requests, pnext, pstored>>

\* verify.py:47-49  msg_id = str(uuid4()); await ws.send(...)
par_send(w) ==
    /\ UNCHANGED outsideParallel
    /\ par[w].pc = "send"
    /\ pnext' = [pnext EXCEPT ![w] = pnext[w] + 1]
    /\ requests' = requests \cup {[conn |-> pws[verifier_of(w)], from |-> w,
                                   id |-> par_uuid4(w)]}
    /\ par' = [par EXCEPT ![w].pc = "recv", ![w].msg_id = par_uuid4(w),
                          ![w].recvN = 0, ![w].got = NoMessage,
                          ![w].returned = NoId]
    /\ UNCHANGED <<pws, chan, pstored>>

\* the endpoint answers a command on the connection the command came in on
endpoint_reply ==
    /\ UNCHANGED outsideParallel
    /\ \E r \in requests :
          /\ requests' = requests \ {r}
          /\ chan' = [chan EXCEPT ![r.conn] =
                         Append(chan[r.conn],
                                [valid |-> TRUE, conn |-> r.conn,
                                 from |-> r.from, id |-> r.id])]
    /\ UNCHANGED <<par, pws, pnext, pstored>>

\* verify.py:52-62  one turn of the receive loop: a message is read and is
\* the response awaited or is skipped, or wait_for times out
par_recv(w) ==
    /\ UNCHANGED outsideParallel
    /\ par[w].pc = "recv"
    /\ LET c == pws[verifier_of(w)]
       IN  \/ /\ chan[c] # <<>>
              /\ chan' = [chan EXCEPT ![c] = Tail(chan[c])]
              /\ LET m == Head(chan[c])
                     f == [par[w] EXCEPT !.got = m, !.recvN = par[w].recvN + 1]
                 IN  par' = [par EXCEPT ![w] =
                                IF Matches(m, f.msg_id)
                                THEN par_after_command(
                                         [f EXCEPT !.returned = m.id])
                                ELSE IF f.recvN < MAX_RECV_ATTEMPTS
                                     THEN f
                                     ELSE par_after_command(f)]
           \/ /\ par' = [par EXCEPT ![w] = par_after_command(par[w])]
              /\ UNCHANGED chan
    /\ UNCHANGED <<pws, requests, pnext, pstored>>

\* runner.py:192-193  collector.store(result); return result
par_store(w) ==
    /\ UNCHANGED outsideParallel
    /\ par[w].pc = "store"
    /\ pstored' = Append(pstored, scenario_of(w))
    /\ par' = [par EXCEPT ![w].pc = "done", ![w].result = scenario_of(w)]
    /\ UNCHANGED <<pws, chan, requests, pnext>>

\* parallel_test.py:101-106  two runners, verifiers and collectors, not used yet
ParallelInit ==
    /\ par = [w \in Workers |-> IdleWorker]
    /\ pws = [v \in Workers |-> 0]
    /\ chan = [c \in 1..2 |-> <<>>]
    /\ requests = {}
    /\ pnext = [w \in Workers |-> 0]
    /\ pstored = <<>>

ParallelNext ==
    \/ \E w \in Workers : par_run_scenario(w)
    \/ \E w \in Workers : par_get_ws(w)
    \/ \E w \in Workers : par_send(w)
    \/ endpoint_reply
    \/ \E w \in Workers : par_recv(w)
    \/ \E w \in Workers : par_store(w)

\* ======================================================================
\*        bench/verify.py  one BrowserVerifier used by two coroutines
\* ======================================================================
\* Two coroutines call _send_command and close on the same BrowserVerifier.
\* A coroutine runs until its next await (websockets.connect, ws.send,
\* ws.recv, ws.close) and another may run from there. Of the receive loop
\* this keeps the arrival of the matching response or the loss of the
\* connection (the skipping of other messages is explored in SpecVerifier).

Coroutines == {1, 2}

IdleCoroutine == [pc |-> "idle", ws |-> 0, retry |-> 0]

\* verify.py:24-28  if self._ws is None: self._ws = await connect(...): where
\* the coroutine goes from the test of self._ws
get_ws_awaits(cached) == IF cached # 0 THEN "send" ELSE "connect"

\* a coroutine calls a command (capture_state, cleanup_tabs) or close
co_call(c) ==
    /\ UNCHANGED outsideShared
    /\ co[c].pc = "idle"
    /\ co_calls < MaxSharedCalls
    /\ co_calls' = co_calls + 1
    /\ \E op \in {"get_ws", "close"} :
          co' = [co EXCEPT ![c] = [IdleCoroutine EXCEPT !.pc = op]]
    /\ UNCHANGED <<co_ws, co_open, co_sent, co_next>>

\* verify.py:24-29  _get_ws up to its await, or its return of the cached
\* connection
co_get_ws(c) ==
    /\ UNCHANGED outsideShared
    /\ co[c].pc = "get_ws"
    /\ LET to == get_ws_awaits(co_ws)
       IN  co' = [co EXCEPT ![c].pc = to,
                            ![c].ws = IF to = "send" THEN co_ws ELSE 0]
    /\ UNCHANGED <<co_ws, co_open, co_sent, co_next, co_calls>>

\* verify.py:25-29  websockets.connect returns: self._ws = the new connection
co_connected(c) ==
    /\ UNCHANGED outsideShared
    /\ co[c].pc = "connect"
    /\ co_next' = co_next + 1
    /\ co_open' = co_open \cup {co_next + 1}
    /\ co_ws' = co_next + 1
    /\ co' = [co EXCEPT ![c].pc = "send", ![c].ws = co_next + 1]
    /\ UNCHANGED <<co_sent, co_calls>>

\* verify.py:63-67  ConnectionClosed in the try of _send_command
co_connection_closed(f) ==
    IF f.retry = 0
    THEN [f EXCEPT !.pc = "reconnect", !.retry = 1]
    ELSE IdleCoroutine

\* verify.py:47-49  await ws.send(json.dumps(msg))
co_send(c) ==
    /\ UNCHANGED outsideShared
    /\ co[c].pc = "send"
    /\ IF co[c].ws \in co_open
       THEN /\ co_sent' = co_sent \cup {[conn |-> co[c].ws, from |-> c]}
            /\ co' = [co EXCEPT ![c].pc = "recv"]
       ELSE /\ co' = [co EXCEPT ![c] = co_connection_closed(co[c])]
            /\ UNCHANGED co_sent
    /\ UNCHANGED <<co_ws, co_open, co_next, co_calls>>

\* verify.py:52-62  the response to the command arrives and is returned, or
\* the connection is found closed
co_recv(c) ==
    /\ UNCHANGED outsideShared
    /\ co[c].pc = "recv"
    /\ co_sent' = co_sent \ {[conn |-> co[c].ws, from |-> c]}
    /\ co' = [co EXCEPT ![c] = IF co[c].ws \in co_open THEN IdleCoroutine
                                ELSE co_connection_closed(co[c])]
    /\ UNCHANGED <<co_ws, co_open, co_next, co_calls>>

\* verify.py:31-39  _reconnect: the cached connection is closed and dropped,
\* then _get_ws
co_reconnect(c) ==
    /\ UNCHANGED outsideShared
    /\ co[c].pc = "reconnect"
    /\ co_open' = co_open \ {co_ws}
    /\ co_ws' = 0
    /\ co' = [co EXCEPT ![c].pc = "connect", ![c].ws = 0]
    /\ UNCHANGED <<co_sent, co_next, co_calls>>

\* verify.py:114-118  close(): if self._ws: await self._ws.close();
\* self._ws = None
co_close(c) ==
    /\ UNCHANGED outsideShared
    /\ co[c].pc = "close"
    /\ co_open' = co_open \ {co_ws}
    /\ co_ws' = 0
    /\ co' = [co EXCEPT ![c] = IdleCoroutine]
    /\ UNCHANGED <<co_sent, co_next, co_calls>>

\* verify.py:20-22  a BrowserVerifier just constructed
SharedInit ==
    /\ co = [c \in Coroutines |-> IdleCoroutine]
    /\ co_ws = 0
    /\ co_open = {}
    /\ co_sent = {}
    /\ co_next = 0
    /\ co_calls = 0

SharedNext ==
    \/ \E c \in Coroutines : co_call(c)
    \/ \E c \in Coroutines : co_get_ws(c)
    \/ \E c \in Coroutines : co_connected(c)
    \/ \E c \in Coroutines : co_send(c)
    \/ \E c \in Coroutines : co_recv(c)
    \/ \E c \in Coroutines : co_reconnect(c)
    \/ \E c \in Coroutines : co_close(c)

\* ======================================================================
\*        mcp/zenleap_mcp_server.py  browser_command called concurrently
\* ======================================================================
\* Two tool calls run browser_command as asyncio tasks. A task runs until
\* its next await (the lock, get_ws, ws.send, ws.recv) and another may run
\* from there. get_ws is taken as one step: it is called under
\* _ws_command_lock only, so its own lock is never contended (its branches
\* are explored in SpecProxy).

Tasks == {1, 2}

IdleTask == [pc |-> "idle", attempt |-> 0, ws |-> 0, outcome |-> ""]

\* a lock that never makes a task wait
acquired_always(holder) == TRUE

\* zenleap_mcp_server.py:108  async with _ws_command_lock: the lock is taken
\* when nobody holds it
acquired(holder) == holder = 0

\* a tool calls browser_command, which waits for the lock
tc_call(t) ==
    /\ UNCHANGED outsideLocked
    /\ tc[t].pc \in {"idle", "done"}
    /\ tc_calls < MaxTaskCalls
    /\ tc_calls' = tc_calls + 1
    /\ tc' = [tc EXCEPT ![t] = [IdleTask EXCEPT !.pc = "lock"]]
    /\ UNCHANGED <<cmd_lock, tc_ws, tc_next, tc_last>>

\* zenleap_mcp_server.py:108-109  the lock is acquired
tc_acquire(t) ==
    /\ UNCHANGED outsideLocked
    /\ tc[t].pc = "lock"
    /\ acquired(cmd_lock)
    /\ cmd_lock' = t
    /\ tc' = [tc EXCEPT ![t].pc = "get_ws"]
    /\ UNCHANGED <<tc_ws, tc_next, tc_calls, tc_last>>

\* zenleap_mcp_server.py:116-127 and 108  the except clause of task t: the
\* first try drops the cached connection and goes round again, the second
\* re-raises, which leaves the `async with` and releases the lock
tc_fails(t) ==
    IF tc[t].attempt = 0
    THEN /\ tc' = [tc EXCEPT ![t].pc = "get_ws", ![t].attempt = 1,
                             ![t].ws = 0]
         /\ tc_ws' = 0
         /\ tc_last' = IF tc_ws # 0 THEN t ELSE tc_last
         /\ UNCHANGED cmd_lock
    ELSE /\ tc' = [tc EXCEPT ![t].pc = "done", ![t].outcome = "raise"]
         /\ cmd_lock' = IF cmd_lock = t THEN 0 ELSE cmd_lock
         /\ UNCHANGED <<tc_ws, tc_last>>

\* zenleap_mcp_server.py:110, 36-98  ws = await get_ws(): the cached
\* connection answers the ping, or a new one is opened, or connecting fails
tc_get_ws(t) ==
    /\ UNCHANGED outsideLocked
    /\ tc[t].pc = "get_ws"
    /\ \/ /\ tc_ws # 0
          /\ tc' = [tc EXCEPT ![t].pc = "send", ![t].ws = tc_ws]
          /\ UNCHANGED <<cmd_lock, tc_ws, tc_next, tc_last>>
       \/ /\ tc_next' = tc_next + 1
          /\ tc_ws' = tc_next + 1
          /\ tc_last' = t
          /\ tc' = [tc EXCEPT ![t].pc = "send", ![t].ws = tc_next + 1]
          /\ UNCHANGED cmd_lock
       \/ /\ tc_fails(t)
          /\ UNCHANGED tc_next
    /\ UNCHANGED tc_calls

\* zenleap_mcp_server.py:111-113  await ws.send(...)
tc_send(t) ==
    /\ UNCHANGED outsideLocked
    /\ tc[t].pc = "send"
    /\ \/ /\ tc' = [tc EXCEPT ![t].pc = "recv"]
          /\ UNCHANGED <<cmd_lock, tc_ws, tc_last>>
       \/ tc_fails(t)
    /\ UNCHANGED <<tc_next, tc_calls>>

\* zenleap_mcp_server.py:114-131  the response is read: its result is
\* returned or its error raised, both leaving the `async with`; or recv fails
tc_recv(t) ==
    /\ UNCHANGED outsideLocked
    /\ tc[t].pc = "recv"
    /\ \/ \E how \in {"return", "raise"} :
            /\ tc' = [tc EXCEPT ![t].pc = "done", ![t].outcome = how]
            /\ cmd_lock' = IF cmd_lock = t THEN 0 ELSE cmd_lock
            /\ UNCHANGED <<tc_ws, tc_last>>
       \/ tc_fails(t)
    /\ UNCHANGED <<tc_next, tc_calls>>

\* zenleap_mcp_server.py:30-33  the module as imported
LockedInit ==
    /\ tc = [t \in Tasks |-> IdleTask]
    /\ cmd_lock = 0
    /\ tc_ws = 0
    /\ tc_next = 0
    /\ tc_calls = 0
    /\ tc_last = 0

LockedNext ==
    \/ \E t \in Tasks : tc_call(t)
    \/ \E t \in Tasks : tc_acquire(t)
    \/ \E t \in Tasks : tc_get_ws(t)
    \/ \E t \in Tasks : tc_send(t)
    \/ \E t \in Tasks : tc_recv(t)

\* ======================================================================
\*            mcp/zenleap_mcp_server.py  get_ws, browser_command
\* ======================================================================
\* One caller at a time (browser_command holds _ws_command_lock for the whole
\* call). get_ws is one step: nobody else can run between its awaits.

ProxyMethods == {"close_tab"}

\* the ZENLEAP_SESSION_ID values a process is started with
EnvSessions == {0, 9}

Tab_not_found == "Tab not found"

Unknown_browser_error == "Unknown browser error"

NoBrowserError == [has |-> FALSE, hasMessage |-> FALSE, message |-> ""]

NoResponse == [valid |-> FALSE, id |-> 0, error |-> NoBrowserError]

\* zenleap_mcp_server.py:128-131  the responses browser_command tells apart:
\* a result, an error with a message, an error without one
Responses(id) ==
    { [valid |-> TRUE, id |-> id, error |-> e] :
        e \in { NoBrowserError,
                [has |-> TRUE, hasMessage |-> TRUE, message |-> Tab_not_found],
                [has |-> TRUE, hasMessage |-> FALSE, message |-> ""] } }

\* what the last get_ws call of a browser_command started from and did: the
\* cached connection and saved session id it found, how the ping went, the
\* urls it tried to connect to in order, the number of connections it opened,
\* whether it returned and which connection
NoGet == [valid |-> FALSE, cached |-> 0, saved |-> 0, ping |-> "none",
          tried |-> <<>>, opened |-> 0, ok |-> FALSE, ws |-> 0]

\* on: the connections the command was sent on; dropped, before: the cached
\* connection and the number of connections opened when the first try failed
NoCall == [pc |-> "idle", method |-> "", attempt |-> 0, ws |-> 0,
           msg_id |-> 0, sent |-> 0, failures |-> 0, reconnects |-> 0,
           resp |-> NoResponse, outcome |-> "", exc |-> "",
           on |-> <<>>, dropped |-> 0, before |-> 0, gw |-> NoGet]

\* zenleap_mcp_server.py:60-65  the url get_ws connects to
route(reconnect_id) ==
    IF reconnect_id # 0
    THEN [path |-> "session", id |-> reconnect_id]
    ELSE [path |-> "new", id |-> 0]

\* only the session of the environment variable is joined again
reconnect_id_env_only(env, saved) == env

\* zenleap_mcp_server.py:61  reconnect_id = SESSION_ID or _session_id
reconnect_id_of(env, saved) == IF env # 0 THEN env ELSE saved

\* zenleap_mcp_server.py:88-96  the X-ZenLeap-Session header of a connection:
\* the session joined, or the session the browser has created for /new
announced(url) ==
    IF url.path = "session" THEN url.id
    ELSE 1 + Len(SelectSeq(sockets, LAMBDA k : k.url.path = "new"))

\* zenleap_mcp_server.py:67-73  websockets.connect(url) has succeeded
connected(socks, url) ==
    Append(socks, [url |-> url, closed |-> FALSE, inbox |-> <<>>])

\* zenleap_mcp_server.py:54-56, 121-123  await old_ws.close()
closed_socket(socks, c) ==
    IF c = 0 THEN socks ELSE [socks EXCEPT ![c].closed = TRUE]

\* the session of the environment variable is given up for a new one too
may_fall_back_always(reconnect_id, env) == reconnect_id # 0

\* zenleap_mcp_server.py:75  if reconnect_id and not SESSION_ID
may_fall_back(reconnect_id, env) == reconnect_id # 0 /\ env = 0

\* zenleap_mcp_server.py:60-98  the ways get_ws can end once it has no cached
\* connection: for each, whether it returned, and the connection, session id
\* and sockets it leaves
connect_outcomes(socks) ==
    LET id == reconnect_id_of(SESSION_ID, session_id)
        first == route(id)
        new == route(0)
    IN  {[ok |-> TRUE, ws |-> Len(socks) + 1, session |-> announced(first),
          socks |-> connected(socks, first), tried |-> <<first>>]}
        \cup
        (IF may_fall_back(id, SESSION_ID)
         THEN {[ok |-> TRUE, ws |-> Len(socks) + 1, session |-> announced(new),
                socks |-> connected(socks, new), tried |-> <<first, new>>],
               [ok |-> FALSE, ws |-> 0, session |-> 0, socks |-> socks,
                tried |-> <<first, new>>]}
         ELSE {[ok |-> FALSE, ws |-> 0, session |-> session_id,
                socks |-> socks, tried |-> <<first>>]})

\* zenleap_mcp_server.py:45-98  the ways one get_ws call can end: the cached
\* connection answers the ping, or it is closed and dropped (or there is
\* none) and a connection is opened
get_ws_outcomes ==
    (IF ws_connection # 0
     THEN {[ok |-> TRUE, ws |-> ws_connection, session |-> session_id,
            socks |-> sockets, tried |-> <<>>]}
     ELSE {})
    \cup connect_outcomes(closed_socket(sockets, ws_connection))

\* what a get_ws call that ended as o leaves on record
get_ws_record(o) ==
    [valid |-> TRUE, cached |-> ws_connection, saved |-> session_id,
     ping |-> IF ws_connection = 0 THEN "none"
              ELSE IF o.tried = <<>> THEN "ok" ELSE "failed",
     tried |-> o.tried, opened |-> Len(o.socks) - Len(sockets),
     ok |-> o.ok, ws |-> o.ws]

\* the error response is taken for a connection-level failure and tried again
raise_or_retry_browser_error(c, resp) ==
    IF c.attempt = 0
    THEN [c EXCEPT !.pc = "get_ws", !.attempt = 1, !.resp = resp]
    ELSE [c EXCEPT !.pc = "done", !.resp = resp, !.outcome = "raise",
                   !.exc = resp.error.message]

\* zenleap_mcp_server.py:128-129  raise Exception(resp["error"].get("message",
\* "Unknown browser error"))
raise_browser_error(c, resp) ==
    [c EXCEPT !.pc = "done", !.resp = resp, !.outcome = "raise",
              !.exc = IF resp.error.hasMessage THEN resp.error.message
                      ELSE Unknown_browser_error]

\* the first try goes round again with the cached connection kept
connection_level_error_keeps(c, cached, socks, what) ==
    IF c.attempt = 0
    THEN [call |-> [c EXCEPT !.pc = "get_ws", !.attempt = 1,
                             !.failures = c.failures + 1,
                             !.reconnects = c.reconnects + 1,
                             !.dropped = cached, !.before = Len(socks)],
          ws |-> cached, socks |-> socks]
    ELSE [call |-> [c EXCEPT !.pc = "done", !.outcome = "raise", !.exc = what,
                             !.failures = c.failures + 1],
          ws |-> cached, socks |-> socks]

\* zenleap_mcp_server.py:115-126  except Exception: the first try drops and
\* closes the cached connection and goes round again, the second raises
connection_level_error(c, cached, socks, what) ==
    IF c.attempt = 0
    THEN [call |-> [c EXCEPT !.pc = "get_ws", !.attempt = 1,
                             !.failures = c.failures + 1,
                             !.reconnects = c.reconnects + 1,
                             !.dropped = cached, !.before = Len(socks)],
          ws |-> 0, socks |-> closed_socket(socks, cached)]
    ELSE [call |-> [c EXCEPT !.pc = "done", !.outcome = "raise", !.exc = what,
                             !.failures = c.failures + 1],
          ws |-> cached, socks |-> socks]

\* zenleap_mcp_server.py:101-108  a tool calls browser_command
browser_command ==
    /\ UNCHANGED outsideProxy
    /\ bc.pc \in {"idle", "done"}
    /\ bcalls < MaxProxyCalls
    /\ bcalls' = bcalls + 1
    /\ \E method \in ProxyMethods :
          bc' = [NoCall EXCEPT !.pc = "get_ws", !.method = method]
    /\ UNCHANGED <<ws_connection, session_id, SESSION_ID, sockets, commands>>

\* zenleap_mcp_server.py:110  ws = await get_ws()
proxy_get_ws ==
    /\ UNCHANGED outsideProxy
    /\ bc.pc = "get_ws"
    /\ \E o \in get_ws_outcomes :
          IF o.ok
          THEN /\ bc' = [bc EXCEPT !.pc = "send", !.ws = o.ws,
                                   !.gw = get_ws_record(o)]
               /\ ws_connection' = o.ws
               /\ session_id' = o.session
               /\ sockets' = o.socks
          ELSE LET h == connection_level_error(
                            [bc EXCEPT !.gw = get_ws_record(o)], 0, o.socks,
                            "connect")
               IN  /\ bc' = h.call
                   /\ ws_connection' = h.ws
                   /\ session_id' = o.session
                   /\ sockets' = h.socks
    /\ UNCHANGED <<SESSION_ID, commands, bcalls>>

\* zenleap_mcp_server.py:111-113  msg_id = str(uuid4()); await ws.send(...)
proxy_send ==
    /\ UNCHANGED outsideProxy
    /\ bc.pc = "send"
    /\ \/ /\ bc' = [bc EXCEPT !.pc = "recv", !.msg_id = 2 * bcalls + bc.attempt,
                              !.sent = bc.sent + 1,
                              !.on = Append(bc.on, bc.ws)]
          /\ commands' = commands \cup
                            {[conn |-> bc.ws, id |-> 2 * bcalls + bc.attempt]}
          /\ UNCHANGED <<ws_connection, sockets>>
       \/ LET h == connection_level_error(bc, ws_connection, sockets, "send")
          IN  /\ bc' = h.call
              /\ ws_connection' = h.ws
              /\ sockets' = h.socks
              /\ UNCHANGED commands
    /\ UNCHANGED <<session_id, SESSION_ID, bcalls>>

\* the browser answers a request on the connection it arrived on; an answer
\* to a connection the proxy has closed is lost
browser_reply ==
    /\ UNCHANGED outsideProxy
    /\ \E r \in commands :
          /\ commands' = commands \ {r}
          /\ \E resp \in Responses(r.id) :
                sockets' = IF sockets[r.conn].closed THEN sockets
                           ELSE [sockets EXCEPT ![r.conn].inbox =
                                    Append(sockets[r.conn].inbox, resp)]
    /\ UNCHANGED <<bc, ws_connection, session_id, SESSION_ID, bcalls>>

\* zenleap_mcp_server.py:114-130  raw = await asyncio.wait_for(ws.recv(), 120)
\* and what follows: the message read is the response, whatever its id
proxy_recv ==
    /\ UNCHANGED outsideProxy
    /\ bc.pc = "recv"
    /\ IF sockets[bc.ws].inbox # <<>>
       THEN LET resp == Head(sockets[bc.ws].inbox)
            IN  /\ sockets' = [sockets EXCEPT ![bc.ws].inbox =
                                  Tail(sockets[bc.ws].inbox)]
                /\ bc' = IF resp.error.has
                         THEN raise_browser_error(bc, resp)
                         ELSE [bc EXCEPT !.pc = "done", !.resp = resp,
                                         !.outcome = "return"]
                /\ UNCHANGED ws_connection
       ELSE LET h == connection_level_error(bc, ws_connection, sockets, "recv")
            IN  /\ bc' = h.call
                /\ ws_connection' = h.ws
                /\ sockets' = h.socks
    /\ UNCHANGED <<session_id, SESSION_ID, commands, bcalls>>

\* zenleap_mcp_server.py:19-33  the module as imported: no connection, no
\* saved session
ProxyInit ==
    /\ bc = NoCall
    /\ ws_connection = 0
    /\ session_id = 0
    /\ SESSION_ID \in EnvSessions
    /\ sockets = <<>>
    /\ commands = {}
    /\ bcalls = 0

ProxyNext ==
    \/ browser_command
    \/ proxy_get_ws
    \/ proxy_send
    \/ browser_reply
    \/ proxy_recv

\* the error _error_signature is about to be called on
SignatureInit ==
    /\ signed \in {[NoSignature EXCEPT !.error = e] : e \in ErrorTexts}
    /\ cycle = NoCycle
    /\ earlier = NoCycle

\* improve.py:38-39  a SelfImprover that has not been called
ImproveInit ==
    /\ signed = NoSignature
    /\ cycle = NoCycle
    /\ earlier = NoCycle

Init ==
    /\ VerifierInit /\ RunnerInit /\ MetricsInit /\ report = NoReport
    /\ ImproveInit /\ ParallelInit /\ ProxyInit /\ SharedInit /\ LockedInit /\ SESSION_ID = 0

\* one BrowserVerifier driven by a sequence of public calls
SpecVerifier == Init /\ [][VerifierNext]_vars

\* one run_scenario call on a fresh collector
SpecRunner == Init /\ [][RunnerNext]_vars

\* one collector driven by a sequence of store calls and queries
SpecMetrics == Init /\ [][MetricsNext]_vars

\* a database of earlier runs and a list of results to report on
InitReport ==
    /\ VerifierInit /\ RunnerInit /\ ReportInit /\ ImproveInit
    /\ ParallelInit /\ ProxyInit /\ SharedInit /\ LockedInit /\ SESSION_ID = 0

\* generate called on the database of earlier runs
SpecReport == InitReport /\ [][ReportNext]_vars

\* an error message to take the signature of
InitSignature ==
    /\ VerifierInit /\ RunnerInit /\ MetricsInit /\ report = NoReport
    /\ SignatureInit /\ ParallelInit /\ ProxyInit /\ SharedInit /\ LockedInit /\ SESSION_ID = 0

\* the rest of the program at rest while cmd_run runs
InitPipeline ==
    /\ VerifierInit /\ RunnerInit /\ PipelineInit /\ ImproveInit
    /\ ParallelInit /\ ProxyInit /\ SharedInit /\ LockedInit /\ SESSION_ID = 0

\* cmd_run on a database of earlier runs
SpecPipeline == InitPipeline /\ [][PipelineNext]_vars

\* stores, queries and generate on a database of earlier runs
SpecDatabase == InitPipeline /\ [][DatabaseNext]_vars

\* the patterns of one failed run, about to be turned into tasks
InitTasks ==
    /\ VerifierInit /\ RunnerInit /\ MetricsInit /\ report = NoReport
    /\ TasksInit /\ ParallelInit /\ ProxyInit /\ SharedInit /\ LockedInit
    /\ SESSION_ID = 0

\* generate_tasks on the patterns of one failed run
SpecTasks == InitTasks /\ [][TasksNext]_vars

\* two tool calls running browser_command concurrently
SpecLocked == Init /\ [][LockedNext]_vars

\* two coroutines sharing one BrowserVerifier
SpecShared == Init /\ [][SharedNext]_vars

\* _error_signature applied to error messages
SpecSignature == InitSignature /\ [][SignatureNext]_vars

\* improvement cycles on lists of RunResults, while runs are being stored
SpecImprove == Init /\ [][ImproveNext]_vars

\* two run_scenario calls running concurrently, each with its own verifier
SpecParallel == Init /\ [][ParallelNext]_vars

\* the proxy as started, with ZENLEAP_SESSION_ID set or not
InitProxy ==
    /\ VerifierInit /\ RunnerInit /\ MetricsInit /\ report = NoReport
    /\ ImproveInit /\ ParallelInit /\ ProxyInit /\ SharedInit /\ LockedInit

\* browser_command calls made one after another on the proxy
SpecProxy == InitProxy /\ [][ProxyNext]_vars

\* ======================================================================
\*                              properties
\* ======================================================================
\* an attempt has just been persisted and no later attempt has started
Built == rpc \in {"sleep", "loop", "done"} /\ Len(persisted) > 0

Terminal == {"agent_error", "verification_failure"}

Categories == {"agent_error", "verification_failure", "infrastructure"}

Row(rr) == [attempt |-> rr.attempt, passed |-> rr.passed,
            failure_category |-> rr.failure_category]

AllInfrastructure ==
    \A i \in 1..Len(persisted) : persisted[i].failure_category = "infrastructure"

\* C1: when run_scenario has returned for a scenario with max_attempts = N >= 1
\* and every attempt was classified infrastructure, exactly N RunResults are
\* persisted, with attempt numbers 1..N, and the returned one is that of
\* attempt N.
C1_AllInfrastructurePersistsN ==
    (rpc = "done" /\ scenario.max_attempts >= 1 /\ AllInfrastructure) =>
        /\ Len(persisted) = scenario.max_attempts
        /\ \A i \in 1..Len(persisted) : persisted[i].attempt = i
        /\ result.valid
        /\ result.attempt = scenario.max_attempts
        /\ Row(result) = persisted[scenario.max_attempts]

C1_Witness ==
    /\ rpc = "done"
    /\ scenario.max_attempts = MaxAttempts
    /\ Len(persisted) = MaxAttempts
    /\ AllInfrastructure

\* C2 as stated: when run_scenario has returned and some attempt failed with
\* agent_error or verification_failure, exactly one RunResult was persisted
\* by the call.
C2_Original ==
    (rpc = "done" /\ \E i \in 1..Len(persisted) :
                        persisted[i].failure_category \in Terminal) =>
        Len(persisted) = 1

\* C2 amended: an attempt that failed with agent_error or verification_failure
\* is the last attempt of the call (run_scenario has returned and no later
\* attempt started, even if attempts remain), and the call persisted exactly
\* one RunResult for each attempt made, that attempt included.
C2_TerminalFailureEndsCall ==
    \A i \in 1..Len(persisted) :
        persisted[i].failure_category \in Terminal =>
            /\ i = Len(persisted)
            /\ rpc = "done"
            /\ attempt = i
            /\ \A j \in 1..Len(persisted) : persisted[j].attempt = j

C2_Witness ==
    /\ rpc = "done"
    /\ Len(persisted) = 1
    /\ persisted[1].failure_category \in Terminal
    /\ scenario.max_attempts > 1

\* C3: every RunResult built and persisted has failure_category None iff
\* passed; a category that is set is one of agent_error, verification_failure,
\* infrastructure; and the category is assigned at most once in an attempt
\* (exactly once when the attempt failed).
C3_CategoryIffNotPassed ==
    /\ \A i \in 1..Len(persisted) :
         /\ persisted[i].passed <=> persisted[i].failure_category = "None"
         /\ persisted[i].failure_category \in Categories \cup {"None"}
    /\ result.valid =>
         /\ result.passed <=> result.failure_category = "None"
         /\ result.failure_category \in Categories \cup {"None"}
    /\ att.assigns <= 1
    /\ Built => /\ Row(result) = persisted[Len(persisted)]
                /\ att.assigns = IF result.failure_category = "None" THEN 0 ELSE 1

C3_Witness ==
    /\ Built
    /\ result.failure_category = "verification_failure"
    /\ ~result.passed
    /\ att.assigns = 1

\* every verification predicate of the scenario was evaluated in the attempt
\* and evaluated to true
AllChecksTrue ==
    /\ Len(att.evals) = Len(scenario.verifications)
    /\ \A i \in 1..Len(att.evals) : att.evals[i]

\* the agent completed without an execution-level error
AgentClean == att.exc = "" /\ run.result_message = "ok"

\* C4: the RunResult of an attempt has passed = true iff every verification
\* predicate of the scenario evaluated to true in that attempt and the agent
\* completed without an execution-level error.
C4_PassedIffAllChecksTrue ==
    Built => (result.passed <=> (AllChecksTrue /\ AgentClean))

IsDrop(ev) == ev \in {"send_closed", "recv_closed"}

IsSendTry(ev) == ev \in {"send", "send_closed"}

Count(t, Test(_)) == Cardinality({i \in 1..Len(t) : Test(t[i])})

\* C5: a response with the request's id and an error field ends the command
\* at once: it raises an error that carries the response's message, and
\* nothing follows it (no reconnect, no second send); a command that is still
\* running has seen no such response.
C5_ErrorResponseNeverRetried ==
    /\ \A i \in 1..Len(sc.trace) : sc.trace[i] # "error"
    /\ lastCmd.done =>
         \A i \in 1..Len(lastCmd.trace) :
            lastCmd.trace[i] = "error" =>
                /\ i = Len(lastCmd.trace)
                /\ lastCmd.respId = lastCmd.reqId
                /\ lastCmd.outcome = "raise"
                /\ lastCmd.exc = "Exception"
                /\ lastCmd.text.what = "error"
                /\ lastCmd.text.method = lastCmd.method
                /\ lastCmd.error.hasMessage =>
                       lastCmd.text.detail = lastCmd.error.message

C5_Witness ==
    /\ lastCmd.done
    /\ Len(lastCmd.trace) > 0
    /\ lastCmd.trace[Len(lastCmd.trace)] = "error"
    /\ lastCmd.error.hasMessage
    /\ lastCmd.outcome = "raise"

\* the first dropped connection of trace t is followed by the close of the old
\* connection and a connect; a successful connect is followed by a second
\* send; a failed connect ends the command
FirstDropReconnects(c) ==
    LET t == c.trace
        drops == {i \in 1..Len(t) : IsDrop(t[i])}
    IN drops # {} =>
         LET i == CHOOSE d \in drops : \A e \in drops : d <= e
         IN /\ Len(t) >= i + 2
            /\ t[i + 1] = "close"
            /\ t[i + 2] \in {"connect", "connect_failed"}
            /\ t[i + 2] = "connect" => (Len(t) >= i + 3 /\ IsSendTry(t[i + 3]))
            /\ t[i + 2] = "connect_failed" =>
                   /\ Len(t) = i + 2
                   /\ c.outcome = "raise"
                   /\ c.exc \in ConnectExceptions
            /\ \A j \in drops : j # i =>
                   /\ j = Len(t)
                   /\ c.outcome = "raise"
                   /\ c.exc = "ConnectionClosed"

\* C6: a dropped connection detected by a failed send or receive triggers
\* exactly one reconnect-and-retry of the command (old connection closed, new
\* one opened, command sent again); a failed reconnect or a second drop
\* propagates; a command is never sent more than twice.
C6_OneReconnectAndRetry ==
    /\ Count(sc.trace, IsSendTry) <= 2
    /\ lastCmd.done =>
         /\ Count(lastCmd.trace, IsSendTry) <= 2
         /\ Count(lastCmd.trace, IsDrop) <= 2
         /\ Cardinality({i \in 1..Len(lastCmd.trace) :
                            lastCmd.trace[i] = "close"}) <= 1
         /\ FirstDropReconnects(lastCmd)

C6_Witness ==
    /\ lastCmd.done
    /\ lastCmd.outcome = "return"
    /\ Count(lastCmd.trace, IsDrop) = 1
    /\ Count(lastCmd.trace, IsSendTry) = 2

\* C7: a command returns a result only from a response whose id is the id of
\* the request it just sent; while it waits it has received fewer than 10
\* messages with another id; the 10th such message ends it with an error and
\* nothing follows (no reconnect, no second send caused by it).
C7_ResultOnlyFromMatchingId ==
    /\ sc.pc = "recv" => sc.recvN < MAX_RECV_ATTEMPTS
    /\ lastCmd.done =>
         /\ lastCmd.outcome = "return" =>
                /\ lastCmd.reqId # 0
                /\ lastCmd.respId = lastCmd.reqId
         /\ \A i \in 1..Len(lastCmd.trace) :
               lastCmd.trace[i] = "no_match" =>
                   /\ i = Len(lastCmd.trace)
                   /\ lastCmd.skipped = MAX_RECV_ATTEMPTS
                   /\ lastCmd.outcome = "raise"
                   /\ lastCmd.exc = "Exception"
                   /\ lastCmd.text.what = "no matching response"

C7_Witness ==
    /\ lastCmd.done
    /\ lastCmd.outcome = "return"
    /\ lastCmd.late
    /\ lastCmd.respId = lastCmd.reqId

C7_WitnessNoMatch ==
    /\ lastCmd.done
    /\ lastCmd.skipped = MAX_RECV_ATTEMPTS
    /\ lastCmd.late

\* C8: a timeout while awaiting a response is followed by a reconnect (close
\* of the old connection, connect) and, when the connect succeeds, by a second
\* send of the command.
C8_TimeoutReconnectsOnce ==
    lastCmd.done =>
        \A i \in 1..Len(lastCmd.trace) :
            (lastCmd.trace[i] = "timeout" /\ Count(SubSeq(lastCmd.trace, 1, i), IsSendTry) = 1) =>
                /\ Len(lastCmd.trace) >= i + 2
                /\ lastCmd.trace[i + 1] = "close"
                /\ lastCmd.trace[i + 2] \in {"connect", "connect_failed"}

Methods(log) == [i \in 1..Len(log) |-> log[i].method]

\* C9: capture_state issues list_tabs, get_page_info, get_dom, get_page_text in
\* that order; it raises iff list_tabs raised (and then issued nothing else);
\* otherwise all four were issued, the snapshot has exactly the four keys, and
\* a failed optional command left its key at the empty default.
C9_CaptureStateDegrades ==
    /\ vop = "capture_state" =>
         \A i \in 1..Len(oplog) : oplog[i].method = CaptureMethods[i]
    /\ lastOp.op = "capture_state" =>
         /\ lastOp.outcome \in {"return", "raise"}
         /\ Len(oplog) >= 1
         /\ lastOp.outcome = "raise" <=> oplog[1].outcome = "raise"
         /\ lastOp.outcome = "raise" => Len(oplog) = 1
         /\ lastOp.outcome = "return" =>
              /\ Methods(oplog) = CaptureMethods
              /\ DOMAIN state = {"tabs", "active_page_info", "dom_elements",
                                 "page_text"}
              /\ oplog[2].outcome = "raise" => state["active_page_info"] = EmptyDict
              /\ oplog[3].outcome = "raise" => state["dom_elements"].val = "[]"
              /\ oplog[4].outcome = "raise" => state["page_text"].val = ""

C9_Witness ==
    /\ lastOp.op = "capture_state"
    /\ lastOp.outcome = "return"
    /\ oplog[2].outcome = "raise"
    /\ oplog[3].outcome = "raise"
    /\ oplog[4].outcome = "return"

HasTabId(t) == t # "none"

\* C10: cleanup_tabs never raises; when list_tabs failed it issued nothing
\* else; otherwise it issued one close_tab for every listed tab that has a
\* tab_id, in list order, whether or not earlier closes failed.
C10_CleanupBestEffort ==
    lastOp.op = "cleanup_tabs" =>
        /\ lastOp.outcome = "return"
        /\ Len(oplog) >= 1
        /\ oplog[1].method = "list_tabs"
        /\ oplog[1].outcome = "raise" => Len(oplog) = 1
        /\ oplog[1].outcome = "return" =>
             LET ids == SelectSeq(tabs, HasTabId)
             IN /\ Len(oplog) = 1 + Len(ids)
                /\ \A j \in 1..Len(ids) :
                      /\ oplog[j + 1].method = "close_tab"
                      /\ oplog[j + 1].params = ids[j]

C10_Witness ==
    /\ lastOp.op = "cleanup_tabs"
    /\ Len(oplog) = 3
    /\ oplog[2].outcome = "raise"
    /\ oplog[3].method = "close_tab"

\* rows of scenario id in the table, as rowids
RowsOf(id) == {i \in 1..Len(runs) : runs[i].scenario_id = id}

\* S holds the k rows of M with the greatest timestamps
Newest(S, M, k) ==
    /\ S \subseteq M
    /\ Cardinality(S) = k
    /\ \A i \in S, j \in M \ S : runs[i].timestamp >= runs[j].timestamp

Min(a, b) == IF a < b THEN a ELSE b

\* C11: what get_pass_rate(id, N) returned is 0.0 when the table has no row
\* of id, and otherwise passed / total over the min(N, rows of id) rows of id
\* with the greatest timestamps (rows of other scenarios do not enter it); it
\* lies within [0, 1].
C11_PassRateOverNewestN ==
    mret.call = "get_pass_rate" =>
        LET M == RowsOf(mret.scenario_id)
            k == Min(mret.last_n, Cardinality(M))
        IN  /\ mret.rate.den >= 1
            /\ 0 <= mret.rate.num /\ mret.rate.num <= mret.rate.den
            /\ M = {} => mret.rate.num = 0
            /\ M # {} =>
                 \E S \in SUBSET M :
                    /\ Newest(S, M, k)
                    /\ mret.rate.num * k
                         = Cardinality({i \in S : runs[i].passed})
                             * mret.rate.den

\* last_n = 1 cuts the older, passed row of the scenario off: the rate is that
\* of the newest row alone
C11_Witness ==
    /\ mret.call = "get_pass_rate"
    /\ mret.last_n = 1
    /\ Len(runs) = MaxRuns
    /\ \E i, j \in RowsOf(mret.scenario_id) :
          /\ runs[i].timestamp < runs[j].timestamp
          /\ runs[i].passed /\ ~runs[j].passed
    /\ mret.rate = Zero

\* C12: what get_cost_trend(id, N) returned is the cost column of the
\* min(N, rows of id with a cost) rows of id with a cost that have the
\* greatest timestamps, listed by ascending timestamp, whatever the order the
\* rows were inserted in.
C12_CostTrendAscending ==
    mret.call = "get_cost_trend" =>
        LET M == {i \in RowsOf(mret.scenario_id) :
                     runs[i].total_cost_usd # "None"}
            k == Min(mret.last_n, Cardinality(M))
        IN  \E q \in [1..k -> M] :
               /\ \A i, j \in 1..k :
                     i < j => /\ q[i] # q[j]
                              /\ runs[q[i]].timestamp <= runs[q[j]].timestamp
               /\ Newest({q[i] : i \in 1..k}, M, k)
               /\ mret.costs = [i \in 1..k |-> runs[q[i]].total_cost_usd]

\* two rows with different costs were inserted newest first, and the trend
\* lists the later inserted (older) one first
C12_Witness ==
    /\ mret.call = "get_cost_trend"
    /\ Len(runs) = 2
    /\ runs[1].scenario_id = runs[2].scenario_id
    /\ runs[1].timestamp > runs[2].timestamp
    /\ runs[1].total_cost_usd # runs[2].total_cost_usd
    /\ mret.costs = <<runs[2].total_cost_usd, runs[1].total_cost_usd>>

\* the pass rate of scenario id over its 10 newest rows is above 0.7
RateAbove(id) ==
    LET M == RowsOf(id)
        k == Min(DEFAULT_LAST_N, Cardinality(M))
    IN  /\ k > 0
        /\ \E S \in SUBSET M :
              /\ Newest(S, M, k)
              /\ 10 * Cardinality({i \in S : runs[i].passed}) > 7 * k

IsRegression(r) == ~r.passed /\ RateAbove(r.scenario_id)

Failed(r) == ~r.passed

ScenarioIdsOf(list) == [i \in 1..Len(list) |-> list[i].scenario_id]

\* C13: the regressions of the report generate returned are, in input order,
\* exactly the results that failed and whose scenario has a pass rate over its
\* 10 newest stored runs strictly above 0.7; a failed result with a rate of 0.7
\* or less and every passed result is left out.
C13_RegressionIffFailedAboveThreshold ==
    report.done =>
        /\ ScenarioIdsOf(report.regressions)
             = ScenarioIdsOf(SelectSeq(report.results, IsRegression))
        /\ \A i \in 1..Len(report.regressions) :
              /\ report.regressions[i].error = "fail"
              /\ 10 * report.regressions[i].historical_pass_rate.num
                    > 7 * report.regressions[i].historical_pass_rate.den

\* two failed results, one of a scenario whose stored rate is exactly 0.7 and
\* one of a scenario whose stored rate is 1.0: only the second is listed
C13_Witness ==
    /\ report.done
    /\ runs = History(10, 1..7)
    /\ Len(report.results) = 2
    /\ ~report.results[1].passed /\ report.results[1].scenario_id = "s1"
    /\ ~report.results[2].passed /\ report.results[2].scenario_id = "s2"
    /\ ScenarioIdsOf(report.regressions) = <<"s2">>

RECURSIVE SumOver(_, _)
\* the sum of f[x] over the finite set S
SumOver(S, f) ==
    IF S = {}
    THEN 0
    ELSE LET x == CHOOSE y \in S : TRUE
         IN  f[x] + SumOver(S \ {x}, f)

\* C14: the report generate returned has total = number of results, passed +
\* failed = total, one failures entry per failed result in input order,
\* per-category totals and passed counts that add up to total and passed, and
\* pass_rate = passed / total, which is 0 with total = 0 for the empty list.
C14_ReportTotals ==
    report.done =>
        LET rs == report.results
            cats == DOMAIN report.by_category
        IN  /\ report.total = Len(rs)
            /\ report.passed = Cardinality({i \in 1..Len(rs) : rs[i].passed})
            /\ report.passed + report.failed = report.total
            /\ ScenarioIdsOf(report.failures)
                 = ScenarioIdsOf(SelectSeq(rs, Failed))
            /\ SumOver(cats, [c \in cats |-> report.by_category[c].total])
                 = report.total
            /\ SumOver(cats, [c \in cats |-> report.by_category[c].passed])
                 = report.passed
            /\ report.pass_rate.den >= 1
            /\ report.pass_rate.num * report.total
                 = report.passed * report.pass_rate.den
            /\ rs = <<>> => report.total = 0 /\ report.pass_rate.num = 0

\* a passed and a failed result of two categories: pass_rate is 1/2 and each
\* category has its own counts
C14_Witness ==
    /\ report.done
    /\ report.total = 2 /\ report.passed = 1 /\ report.failed = 1
    /\ report.pass_rate = [num |-> 1, den |-> 2]
    /\ Len(report.failures) = 1
    /\ Cardinality(DOMAIN report.by_category) = 2

\* the lower-case letter of an upper-case one, any other character itself
Lowered(c) ==
    CASE c = "A" -> "a" [] c = "B" -> "b" [] c = "C" -> "c" [] c = "D" -> "d"
      [] c = "E" -> "e" [] c = "F" -> "f" [] c = "G" -> "g" [] c = "H" -> "h"
      [] c = "I" -> "i" [] c = "J" -> "j" [] c = "K" -> "k" [] c = "L" -> "l"
      [] c = "M" -> "m" [] c = "N" -> "n" [] c = "O" -> "o" [] c = "P" -> "p"
      [] c = "Q" -> "q" [] c = "R" -> "r" [] c = "S" -> "s" [] c = "T" -> "t"
      [] c = "U" -> "u" [] c = "V" -> "v" [] c = "W" -> "w" [] c = "X" -> "x"
      [] c = "Y" -> "y" [] c = "Z" -> "z" [] OTHER -> c

LowerCase(s) == [i \in 1..Len(s) |-> Lowered(s[i])]

\* t occurs in s at position i
OccursAt(s, t, i) ==
    /\ i >= 1 /\ i + Len(t) - 1 <= Len(s)
    /\ \A j \in 1..Len(t) : s[i + j - 1] = t[j]

Occurs(s, t) == \E i \in 1..Len(s) : OccursAt(s, t, i)

\* the fixed list, in its order
KnownErrors ==
    <<<<"t", "a", "b", " ", "n", "o", "t", " ", "f", "o", "u", "n", "d">>,
      <<"t", "i", "m", "e", "d", " ", "o", "u", "t">>,
      <<"t", "i", "m", "e", "o", "u", "t">>,
      <<"c", "o", "n", "n", "e", "c", "t", "i", "o", "n", " ", "r", "e", "f",
        "u", "s", "e", "d">>,
      <<"e", "l", "e", "m", "e", "n", "t", " ", "i", "n", "d", "e", "x">>,
      <<"n", "o", " ", "e", "l", "e", "m", "e", "n", "t", " ", "a", "t">>,
      <<"p", "a", "g", "e", " ", "n", "o", "t", " ", "l", "o", "a", "d", "e",
        "d">>,
      <<"c", "a", "n", "n", "o", "t", " ", "a", "c", "c", "e", "s", "s">>>>

Underscored(s) == [i \in 1..Len(s) |-> IF s[i] = " " THEN "_" ELSE s[i]]

\* C17: _error_signature returns 'no_error' for None and for the empty text;
\* otherwise the first entry of the fixed list, in list order, that occurs in
\* the lower-cased error, with its spaces turned into underscores; otherwise
\* the first 50 characters of the lower-cased error.
C17_ErrorSignature ==
    signed.done =>
        IF signed.error = None \/ signed.error = <<>>
        THEN signed.signature = <<"n", "o", "_", "e", "r", "r", "o", "r">>
        ELSE LET low == LowerCase(signed.error)
                 hits == {k \in 1..8 : Occurs(low, KnownErrors[k])}
             IN  IF hits # {}
                 THEN \E k \in hits :
                         /\ \A h \in hits : k <= h
                         /\ signed.signature = Underscored(KnownErrors[k])
                 ELSE /\ Len(signed.signature) = Min(50, Len(low))
                      /\ \A i \in 1..Len(signed.signature) :
                            signed.signature[i] = low[i]

\* "Timeout" comes before "Tab not found" in the message and the signature is
\* tab_not_found, the earlier entry of the list
C17_Witness ==
    /\ signed.done
    /\ signed.error # None
    /\ OccursAt(signed.error, <<"T", "i", "m", "e", "o", "u", "t">>, 1)
    /\ OccursAt(signed.error, <<"T", "a", "b", " ", "n", "o", "t", " ", "f",
                                "o", "u", "n", "d">>, 8)
    /\ signed.signature = <<"t", "a", "b", "_", "n", "o", "t", "_", "f", "o",
                            "u", "n", "d">>

\* an unknown error of 52 characters is cut to its first 50, lower-cased
C17_WitnessCut ==
    /\ signed.done
    /\ signed.error # None
    /\ Len(signed.error) = 52
    /\ Len(signed.signature) = 50
    /\ signed.signature[1] = "a"

\* the key of a failed result
KeyOf(r) == r.failure_category \o <<":">> \o error_signature(r.error)

\* the failed results of the list that have the key, in input order
WithKey(rs, key) == SelectSeq(rs, LAMBDA r : ~r.passed /\ KeyOf(r) = key)

\* the text kept as the example of an error
ExampleOf(e) == IF e = None THEN <<>> ELSE e

\* C15: the patterns analyze_failures returned have pairwise distinct names,
\* and these are exactly the keys failure_category + ':' + signature(error) of
\* the failed results; each pattern's frequency is the number of failed
\* results with its key, its affected_scenarios lists the scenario of each of
\* them, its example errors are the errors of the first three of them in
\* input order, and the frequencies add up to the number of failed results.
C15_OnePatternPerKey ==
    cycle.stage # "none" =>
        LET rs == cycle.results
            ps == cycle.patterns
            failed == {i \in 1..Len(rs) : ~rs[i].passed}
        IN  /\ \A i, j \in 1..Len(ps) :
                  i # j => ps[i].pattern_name # ps[j].pattern_name
            /\ {ps[i].pattern_name : i \in 1..Len(ps)}
                 = {KeyOf(rs[i]) : i \in failed}
            /\ \A i \in 1..Len(ps) :
                  LET same == WithKey(rs, ps[i].pattern_name)
                  IN  /\ ps[i].frequency = Len(same)
                      /\ ps[i].affected_scenarios = ScenarioIdsOf(same)
                      /\ ps[i].example_errors
                           = [k \in 1..Min(3, Len(same)) |->
                                 ExampleOf(same[k].error)]
            /\ SumOver(1..Len(ps), [i \in 1..Len(ps) |-> ps[i].frequency])
                 = Cardinality(failed)

\* four failed results of one key, among them two different error texts: one
\* pattern of frequency 4 that keeps three examples
C15_Witness ==
    /\ cycle.stage = "analyzed"
    /\ Len(cycle.results) = 4
    /\ Len(cycle.patterns) = 1
    /\ cycle.patterns[1].frequency = 4
    /\ Len(cycle.patterns[1].example_errors) = 3
    /\ cycle.patterns[1].example_errors[1] # cycle.patterns[1].example_errors[2]

\* two failed results of different keys and a passed one: two patterns
C15_WitnessDistinct ==
    /\ cycle.stage = "analyzed"
    /\ Len(cycle.results) = 3
    /\ \E i \in 1..3 : cycle.results[i].passed
    /\ Len(cycle.patterns) = 2

Counted(p) == p.frequency >= 1

\* the list of three failed runs with error 'Connection refused' and category
\* infrastructure
ThreeRefused(rs) ==
    /\ Len(rs) = 3
    /\ \A i \in 1..3 :
          /\ ~rs[i].passed
          /\ rs[i].failure_category = infrastructure
          /\ rs[i].error = Connection_refused

\* C16: the tasks generate_tasks returned are, in pattern order, one per
\* pattern of frequency >= 1 among the patterns it was given; a task is
\* critical iff its pattern's frequency is >= 3, high iff it is 2 and medium
\* iff it is 1; three failed results with error 'Connection refused' and
\* category infrastructure give one pattern of frequency 3 and one task, of
\* priority critical and category test_infra.
C16_OneTaskPerPattern ==
    cycle.stage = "tasks" =>
        LET live == SelectSeq(cycle.given, Counted)
            ts == cycle.tasks
        IN  /\ Len(ts) = Len(live)
            /\ \A k \in 1..Len(ts) :
                  /\ ts[k].description.pattern = live[k].pattern_name
                  /\ ts[k].related_scenarios = live[k].affected_scenarios
                  /\ ts[k].priority \in {"critical", "high", "medium"}
                  /\ ts[k].priority = "critical" <=> live[k].frequency >= 3
                  /\ ts[k].priority = "high" <=> live[k].frequency = 2
                  /\ ts[k].priority = "medium" <=> live[k].frequency = 1
            /\ (ThreeRefused(cycle.results) /\ cycle.given = cycle.patterns) =>
                  /\ Len(cycle.patterns) = 1
                  /\ cycle.patterns[1].frequency = 3
                  /\ Len(ts) = 1
                  /\ ts[1].priority = "critical"
                  /\ ts[1].category = "test_infra"

\* the three 'Connection refused' failures have gone through the cycle
C16_Witness ==
    /\ cycle.stage = "tasks"
    /\ ThreeRefused(cycle.results)
    /\ cycle.given = cycle.patterns
    /\ Len(cycle.tasks) = 1
    /\ cycle.tasks[1].priority = "critical"

\* patterns of frequency 1 and 2 behind a pattern of frequency 0: two tasks,
\* high and medium
C16_WitnessSkipped ==
    /\ cycle.stage = "tasks"
    /\ Len(cycle.given) = 3
    /\ cycle.given[1].frequency = 0
    /\ Len(cycle.tasks) = 2
    /\ cycle.tasks[1].priority = "high"
    /\ cycle.tasks[2].priority = "medium"

C19_NoCrossTalk ==
    /\ \A w \in Workers :
          /\ par[w].got.valid =>
                (par[w].got.from = w /\ par[w].got.conn = pws[w])
          /\ par[w].returned # NoId => par[w].returned = par[w].msg_id
          /\ par[w].pc = "done" =>
                (par[w].result = scenario_of(w)
                    /\ Len(SelectSeq(pstored,
                              LAMBDA id : id = scenario_of(w))) = 1)
    /\ (pws["a"] # 0 => pws["a"] # pws["b"])

\* both workers have a command outstanding at the same time, on different
\* connections, and worker "a" has read a reply while "b" was waiting
C19_Witness ==
    /\ par["a"].pc = "recv" /\ par["b"].pc = "recv"
    /\ par["a"].got.valid
    /\ par["a"].msg_id # NoId /\ par["b"].msg_id # NoId
    /\ pws["a"] # 0 /\ pws["b"] # 0 /\ pws["a"] # pws["b"]

\* both workers are done, each after a command that returned its reply
C19_WitnessDone ==
    /\ par["a"].pc = "done" /\ par["b"].pc = "done"
    /\ par["a"].returned # NoId /\ par["b"].returned # NoId

\* the exception text browser_command is to raise for an error response
MessageOf(error) ==
    IF error.hasMessage THEN error.message ELSE "Unknown browser error"

\* the call has ended by raising for an error response it read
RaisedBrowserError ==
    bc.pc = "done" /\ bc.resp.valid /\ bc.resp.error.has

\* C20 as stated: when the response received has an error field,
\* browser_command raises an exception with the error's message ("Unknown
\* browser error" when there is none), exactly one request has been sent and
\* no reconnect was made.
C20_Original ==
    RaisedBrowserError =>
        /\ bc.outcome = "raise"
        /\ bc.exc = MessageOf(bc.resp.error)
        /\ bc.sent = 1
        /\ bc.reconnects = 0

\* C20: a call that read a response with an error field ends there, raising
\* an exception with the error's message ("Unknown browser error" when there
\* is none): the error itself causes no further request and no reconnect.
\* The call has sent one request, or two if its first try failed at
\* connection level, has reconnected only for such a failure, and leaves the
\* connection the error came on cached and open.
C20_BrowserErrorNotRetried ==
    /\ RaisedBrowserError =>
          /\ bc.outcome = "raise"
          /\ bc.exc = MessageOf(bc.resp.error)
          /\ bc.sent >= 1 /\ bc.sent <= bc.failures + 1
          /\ bc.reconnects = bc.failures
          /\ bc.failures <= 1
          /\ ws_connection = bc.ws
          /\ ~sockets[bc.ws].closed
    /\ (bc.resp.valid /\ bc.resp.error.has) => bc.pc = "done"

\* an error response without a message has been read on the first try
C20_Witness ==
    /\ RaisedBrowserError
    /\ ~bc.resp.error.hasMessage
    /\ bc.exc = "Unknown browser error"
    /\ bc.sent = 1

\* an error response with a message has been read on the second try
C20_WitnessSecondTry ==
    /\ RaisedBrowserError
    /\ bc.exc = "Tab not found"
    /\ bc.sent = 2
    /\ bc.reconnects = 1

\* the kinds of connection-level failure: get_ws, send and recv failing
ConnectionLevel == {"connect", "send", "recv"}

\* C21: browser_command tries a command at most twice, and a second time only
\* after a connection-level failure of the first try. That failure drops the
\* cached connection and closes it, so the second try runs on a connection
\* opened after the failure; a second connection-level failure ends the call
\* with that error raised. The command is sent at most twice, and twice only
\* if the first try failed at connection level.
C21_RetriesOnceOnConnectionError ==
    /\ bc.attempt \in {0, 1}
    /\ bc.failures <= 2
    /\ bc.attempt = 1 <=> bc.failures >= 1
    /\ bc.failures >= 1 =>
          /\ bc.dropped # 0 =>
                (sockets[bc.dropped].closed /\ ws_connection # bc.dropped)
          /\ bc.pc \in {"send", "recv"} =>
                (bc.ws > bc.before /\ ws_connection = bc.ws)
    /\ Len(bc.on) = bc.sent /\ bc.sent <= 2
    /\ bc.sent = 2 =>
          (bc.failures >= 1 /\ bc.on[2] > bc.before /\ bc.on[2] # bc.on[1])
    /\ bc.failures = 2 =>
          (bc.pc = "done" /\ bc.outcome = "raise" /\ bc.exc \in ConnectionLevel)
    /\ (bc.pc = "done" /\ bc.failures < 2) =>
          (bc.resp.valid /\ bc.outcome = IF bc.resp.error.has THEN "raise"
                                         ELSE "return")

\* the response timed out on the first try and the command, sent again on a
\* fresh connection, returned
C21_Witness ==
    /\ bc.pc = "done" /\ bc.outcome = "return"
    /\ bc.sent = 2
    /\ bc.dropped # 0

\* both tries failed at connection level and the error propagated
C21_WitnessPropagates ==
    /\ bc.pc = "done" /\ bc.failures = 2
    /\ bc.outcome = "raise" /\ bc.exc = "recv"

\* the url get_ws is to try first, given the saved session id
FirstTarget(saved) ==
    IF SESSION_ID # 0 THEN [path |-> "session", id |-> SESSION_ID]
    ELSE IF saved # 0 THEN [path |-> "session", id |-> saved]
    ELSE [path |-> "new", id |-> 0]

C22_WitnessCached ==
    /\ bc.gw.valid /\ bc.gw.ping = "ok"
    /\ bc.gw.ws = bc.gw.cached /\ bc.gw.ws # 0

C23_WitnessEnv ==
    /\ bc.gw.valid /\ ~bc.gw.ok /\ SESSION_ID # 0
    /\ Len(bc.gw.tried) = 1

\* the positions of an attempt before its RunResult is built
InAttempt == {"setup", "stream", "capture", "verify", "teardown"}

\* C24: a run_scenario call persists one RunResult per attempt it executes,
\* in attempt order and numbered 1, 2, ..., k with k <= max_attempts: while
\* attempt a runs the attempts 1..a-1 are persisted, once it is over 1..a
\* are. Each persisted RunResult before the last is that of an attempt that
\* was retried, and the call returns the RunResult of the last attempt k.
C24_OneResultPerAttempt ==
    /\ \A i \in 1..Len(persisted) : persisted[i].attempt = i
    /\ Len(persisted) <= scenario.max_attempts
    /\ rpc \in InAttempt => Len(persisted) = attempt - 1
    /\ rpc \in {"sleep", "loop", "done"} => Len(persisted) = attempt
    /\ \A i \in 1..(Len(persisted) - 1) :
          persisted[i].failure_category = "infrastructure"
    /\ rpc = "done" =>
          /\ result.valid
          /\ result.attempt = Len(persisted)
          /\ Row(result) = persisted[Len(persisted)]

\* attempt 1 was an infrastructure failure and attempt 2 passed: two
\* RunResults are persisted and the passing one is returned
C24_Witness ==
    /\ rpc = "done"
    /\ Len(persisted) = 2
    /\ persisted[1].failure_category = "infrastructure"
    /\ ~persisted[1].passed
    /\ result.passed /\ result.attempt = 2

\* C25 as stated: an attempt in which capture_state raised ConnectionClosed
\* (the connection was lost and the command failed again after the one
\* reconnect) is classified infrastructure, and another attempt follows if
\* attempts remain.
C25_ConnectionLostIsInfrastructure ==
    (att.exc = "ConnectionClosed" /\ att.at = "capture") =>
        /\ run.failure_category = "infrastructure"
        /\ rpc = "done" => attempt = scenario.max_attempts

\* C26 as stated: the RunResult persisted for an attempt counts every tool
\* invocation the agent stream yielded in that attempt, on every path of
\* the attempt, one that ends with an exception included.
C26_ToolCallsCoverStream ==
    (rpc \in {"sleep", "loop", "done"} /\ result.valid) =>
        result.tool_call_count = att.uses

\* the rows stored before cmd_run started
PriorRowsOf(id) ==
    {i \in 1..Len(runs) : runs[i].scenario_id = id
                             /\ runs[i].timestamp < BATCH_START}

\* the pass rate of scenario id over the runs stored before the batch (its
\* 10 newest, and all of them) is above 0.7
PriorRateAbove(id) ==
    LET M == PriorRowsOf(id)
    IN  /\ M # {}
        /\ Cardinality(M) <= DEFAULT_LAST_N
        /\ 10 * Cardinality({i \in M : runs[i].passed}) > 7 * Cardinality(M)

\* C27 as stated: after cmd_run has stored every attempt of the batch and
\* called generate on the results returned, every scenario that failed in
\* the batch and whose pass rate over the runs stored before the batch is
\* above 0.7 is listed in the regressions of the report.
C27_PriorRateRegressionListed ==
    report.done =>
        \A i \in 1..Len(report.results) :
            (~report.results[i].passed
                 /\ PriorRateAbove(report.results[i].scenario_id)) =>
                \E j \in 1..Len(report.regressions) :
                    report.regressions[j].scenario_id
                        = report.results[i].scenario_id

\* C28 as stated: whenever browser_command returns a result, the response it
\* took the result from is the response to the request it sent (same id), so
\* that a late response to an earlier command is never returned as the result
\* of a later one.
C28_ReturnsOwnResponse ==
    (bc.pc = "done" /\ bc.outcome = "return") =>
        (bc.resp.valid /\ bc.resp.id = bc.msg_id)

\* the attempt has been stored and the loop has moved on or returned
AttemptStored == rpc \in {"sleep", "loop", "done"} /\ result.valid

\* C29: in every attempt teardown_fn, if the scenario has one, is called
\* exactly once, and not at all before the outcome of the attempt is settled
\* nor after its RunResult is stored: when it is called the rows of the
\* earlier attempts alone are stored. Whether or not it raises, run_scenario
\* goes on to store the attempt, and the RunResult stored has the
\* failure_category and error the attempt had before teardown, passed being
\* TRUE exactly when that failure_category is None.
C29_TeardownOnceAndSwallowed ==
    /\ (rpc \in {"setup", "stream", "capture", "verify", "teardown"}) =>
           att.teardowns = 0
    /\ AttemptStored =>
           /\ att.teardowns = (IF scenario.has_teardown THEN 1 ELSE 0)
           /\ att.stored = attempt - 1
           /\ Len(persisted) = attempt
           /\ result.attempt = attempt
           /\ result.failure_category = att.classified.failure_category
           /\ result.error = att.classified.error
           /\ result.passed = (att.classified.failure_category = "None")
           /\ persisted[attempt].passed = result.passed
           /\ persisted[attempt].failure_category = result.failure_category

\* setup failed with a timeout, teardown ran once and raised, and the attempt
\* is stored as an infrastructure failure
C29_Witness ==
    /\ AttemptStored
    /\ att.raised /\ att.teardowns = 1
    /\ att.at = "setup" /\ att.exc = "TimeoutError"
    /\ result.failure_category = "infrastructure"

\* a passing attempt whose teardown raised is stored as passed
C29_WitnessPassed ==
    /\ AttemptStored
    /\ att.raised /\ att.teardowns = 1
    /\ result.passed

\* the exceptions the first two except clauses name
TimeoutOrRefused == {"TimeoutError", "ConnectionRefusedError"}

\* C30: an exception that leaves the attempt body, wherever it was raised
\* (setup, the agent stream, capture_state, a verification predicate), is
\* handled inside run_scenario: the attempt goes on to its teardown and is
\* stored. Its failure_category is infrastructure exactly when the exception
\* is a timeout or a connection-refused error, and agent_error otherwise; for
\* any other exception the error text is the text of the exception, for the
\* two infrastructure ones it is the fixed text of the except clause.
C30_BodyExceptionClassified ==
    att.exc # "" =>
        /\ rpc \in {"teardown", "sleep", "loop", "done"}
        /\ att.at \in {"setup", "stream", "capture", "verify"}
        /\ (run.failure_category = "infrastructure")
               <=> (att.exc \in TimeoutOrRefused)
        /\ (att.exc \notin TimeoutOrRefused) =>
               (run.failure_category = "agent_error" /\ run.error = att.exc)
        /\ (att.exc = "TimeoutError") => run.error = "Scenario timed out"
        /\ (att.exc = "ConnectionRefusedError") =>
               run.error = "Browser WebSocket connection refused"
        /\ AttemptStored =>
               /\ ~result.passed
               /\ result.attempt = attempt
               /\ result.failure_category = run.failure_category
               /\ result.error = run.error

\* a verification predicate raised on a closed connection: the attempt is
\* stored as an agent_error carrying the exception
C30_Witness ==
    /\ AttemptStored
    /\ att.exc = "ConnectionClosed" /\ att.at = "verify"
    /\ result.failure_category = "agent_error"
    /\ result.error = "ConnectionClosed"

\* the agent stream timed out: the attempt is stored as infrastructure
C30_WitnessTimeout ==
    /\ AttemptStored
    /\ att.exc = "TimeoutError" /\ att.at = "stream"
    /\ result.failure_category = "infrastructure"

\* the attempt is past its body
BodyLeft == rpc \in {"teardown", "sleep", "loop", "done"} /\ run.attempt >= 1

\* capture_state has been called in the attempt
CaptureCalled == rpc = "verify" \/ vi >= 1 \/ att.at \in {"capture", "verify"}

\* C31: when the agent stream has ended (without raising) and no completion
\* summary arrived or the last one carries the error flag, the attempt is
\* agent_error with the agent's message as error text ("No result message"
\* without a summary), capture_state has not been called and no predicate
\* has been evaluated; capture_state is called, and predicates are
\* evaluated, only with a clean summary.
C31_AgentErrorSkipsCapture ==
    /\ (BodyLeft /\ att.exc = "" /\ run.result_message # "ok") =>
           /\ run.failure_category = "agent_error"
           /\ run.error = (IF run.result_message = "error" THEN "agent failed"
                           ELSE "No result message")
           /\ ~CaptureCalled
           /\ att.evals = <<>>
           /\ run.verification_results = <<>>
    /\ (rpc = "capture" \/ CaptureCalled \/ att.evals # <<>>) =>
           run.result_message = "ok"

\* an attempt whose summary carried the error flag is stored as agent_error
C31_Witness ==
    /\ AttemptStored
    /\ att.exc = ""
    /\ run.result_message = "error"
    /\ Len(scenario.verifications) >= 1
    /\ result.failure_category = "agent_error"
    /\ result.error = "agent failed"

\* an attempt without a summary is stored with "No result message"
C31_WitnessNoSummary ==
    /\ AttemptStored
    /\ att.exc = ""
    /\ run.result_message = "None"
    /\ result.error = "No result message"

\* C32: run_scenario is in its 2-second delay exactly after it has stored an
\* infrastructure failure of an attempt that is not the last one allowed,
\* and the next attempt starts when the delay is over; a stored attempt that
\* passed, failed terminally or was the last one allowed is followed by the
\* return and no delay. The delays completed so far are one fewer than the
\* attempts started, so a call that returns after k attempts has delayed
\* k - 1 times.
C32_DelayBetweenAttempts ==
    /\ (rpc = "sleep") <=>
           /\ AttemptStored
           /\ rpc # "done"
           /\ run.failure_category = "infrastructure"
           /\ attempt < scenario.max_attempts
    /\ (AttemptStored /\ rpc # "sleep") => rpc = "done"
    /\ (attempt >= 1 /\ rpc # "idle") => delays = attempt - 1
    /\ (rpc = "done" /\ result.valid) =>
           (Len(persisted) = attempt /\ delays = Len(persisted) - 1)

\* a call that returned after two attempts has delayed once
C32_Witness ==
    /\ rpc = "done" /\ result.valid
    /\ attempt = 2
    /\ delays = 1

\* a call whose last allowed attempt was an infrastructure failure returned
\* without a delay after it
C32_WitnessLast ==
    /\ rpc = "done" /\ result.valid
    /\ attempt = scenario.max_attempts
    /\ result.failure_category = "infrastructure"
    /\ delays = attempt - 1

\* C33: in every attempt, retries included, setup_fn (if the scenario has
\* one) has been called once before the agent stream is entered, and never
\* more than once. If setup raised, the agent was not invoked (no event of
\* the stream was consumed), capture_state was not called and no predicate
\* evaluated; the attempt is classified by the except clauses (infrastructure
\* for a timeout or connection refused, agent_error otherwise), teardown
\* runs and the RunResult of the attempt is stored.
C33_SetupEveryAttempt ==
    /\ att.setups <= (IF scenario.has_setup THEN 1 ELSE 0)
    /\ (rpc \in {"stream", "capture", "verify"}) =>
           att.setups = (IF scenario.has_setup THEN 1 ELSE 0)
    /\ (BodyLeft /\ att.at # "setup") =>
           att.setups = (IF scenario.has_setup THEN 1 ELSE 0)
    /\ (att.at = "setup") =>
           /\ scenario.has_setup /\ att.setups = 1
           /\ rpc \in {"teardown", "sleep", "loop", "done"}
           /\ att.uses = 0 /\ run.result_message = "None"
           /\ run.tool_calls = <<>>
           /\ ~CaptureCalled /\ att.evals = <<>>
           /\ run.failure_category =
                  (IF att.exc \in TimeoutOrRefused THEN "infrastructure"
                   ELSE "agent_error")
           /\ AttemptStored =>
                  /\ att.teardowns = (IF scenario.has_teardown THEN 1 ELSE 0)
                  /\ Len(persisted) = attempt
                  /\ result.attempt = attempt
                  /\ ~result.passed
                  /\ result.failure_category = run.failure_category

\* the setup of a retry raised: teardown ran and the attempt is stored
C33_Witness ==
    /\ AttemptStored
    /\ attempt = 2
    /\ att.at = "setup" /\ att.exc = "Exception"
    /\ att.teardowns = 1
    /\ result.failure_category = "agent_error"

\* the agent stream of a retry is entered after its setup
C33_WitnessRetry ==
    /\ rpc = "stream" /\ attempt = 2 /\ att.setups = 1

\* the records of tool_calls made for call id
RecordsOf(id) == {i \in 1..Len(tool_calls) : tool_calls[i].tool = id}

\* C34: a step in which the stream yields a tool result with call id `id`
\* leaves run_scenario in its stream (nothing is raised), adds and removes no
\* record, and changes at most the result of one record made for that id,
\* which then holds the result; if no record was made for id nothing
\* changes. The records and the RunResult of an earlier attempt are not
\* touched: the stored rows and the last RunResult built do not change, and
\* the attempt starts from an empty list of records.
C34_ToolResultMatchesRecord ==
    [][ /\ (rpc = "stream" /\ att'.event # 0) =>
               /\ rpc' = "stream" /\ att'.exc = ""
               /\ Len(tool_calls') = Len(tool_calls)
               /\ persisted' = persisted /\ result' = result /\ run' = run
               /\ IF RecordsOf(att'.event) = {}
                  THEN tool_calls' = tool_calls
                  ELSE \E i \in RecordsOf(att'.event) :
                          /\ tool_calls'[i].tool_result = "r"
                          /\ tool_calls'[i].tool = tool_calls[i].tool
                          /\ \A j \in 1..Len(tool_calls) :
                                j # i => tool_calls'[j] = tool_calls[j]
        /\ (attempt' # attempt) => (tool_calls' = <<>> /\ att'.event = 0)
      ]_vars

\* the stream has yielded a result for a call id no record was made for:
\* the one record, made for another id, still has no result
C34_Witness ==
    /\ rpc = "stream"
    /\ att.event = 2
    /\ Len(tool_calls) = 1
    /\ tool_calls[1].tool = 1
    /\ tool_calls[1].tool_result = "None"

\* the stream has yielded the result of the recorded invocation
C34_WitnessAttached ==
    /\ rpc = "stream"
    /\ att.event = 1
    /\ Len(tool_calls) >= 1
    /\ tool_calls[1].tool = 1
    /\ tool_calls[1].tool_result = "r"

\* C35 as stated: a BrowserVerifier holds at most one open connection at any
\* time and the open one is the one it caches, for every interleaving of
\* coroutines that call the same instance.
C35_AtMostOneConnection ==
    /\ Cardinality(co_open) <= 1
    /\ co_open \subseteq {co_ws}

\* C36 as stated: within one BrowserVerifier no command is sent while an
\* earlier command of the instance awaits its response: at most one command
\* is outstanding, for every interleaving of coroutines that call it.
C36_CommandsSerialized ==
    Cardinality(co_sent) <= 1

\* the tasks inside the `async with _ws_command_lock` of browser_command
InCommand == {t \in Tasks : tc[t].pc \in {"get_ws", "send", "recv"}}

\* C37: under every interleaving of concurrent browser_command calls, at
\* most one call is inside the locked region, so at most one command is
\* between its send and the receipt of its response, and it is on the cached
\* connection; the call inside the region is the holder of the lock;
\* _ws_connection is only ever assigned by the holder (by a step of the task
\* holding the lock); and a call that has ended, by returning or by raising,
\* does not hold the lock, so the lock is free whenever no call is inside.
C37_CommandsMutuallyExclusive ==
    [][ /\ Cardinality(InCommand') <= 1
        /\ Cardinality({t \in Tasks : tc'[t].pc = "recv"}) <= 1
        /\ \A t \in Tasks :
              /\ (t \in InCommand') <=> (cmd_lock' = t)
              /\ (tc'[t].pc = "recv") => (tc'[t].ws = tc_ws' /\ tc_ws' # 0)
              /\ (tc'[t].pc = "done") => (cmd_lock' # t)
        /\ (tc_ws' # tc_ws) =>
              (cmd_lock # 0 /\ tc[cmd_lock] # tc'[cmd_lock]
                 /\ tc_last' = cmd_lock
                 /\ \A t \in Tasks : t # cmd_lock => tc'[t] = tc[t])
      ]_vars

\* a command failed on both tries and raised; the other task, which waited
\* for the lock meanwhile, now holds it and awaits its response
C37_Witness ==
    /\ tc[1].pc = "done" /\ tc[1].outcome = "raise" /\ tc[1].attempt = 1
    /\ tc[2].pc = "recv" /\ cmd_lock = 2

\* one task awaits its response while the other waits for the lock
C37_WitnessWaiting ==
    /\ tc[1].pc = "recv" /\ tc[2].pc = "lock" /\ cmd_lock = 1

\* the keyword rule the claim selects for a pattern key: timeout, then
\* element, then verification, then connection, then the fallback
KeyRule(name) ==
    IF contains(name, in_timeout) \/ contains(name, in_timed_out)
    THEN "timeout"
    ELSE IF contains(name, in_element) THEN "element"
    ELSE IF contains(name, in_verification) THEN "verification"
    ELSE IF contains(name, in_connection) THEN "connection"
    ELSE "fallback"

\* the rule a title belongs to
TitleRule(title) ==
    CASE title.text = "Increase timeout handling and add wait strategies" ->
            "timeout"
      [] title.text = "Improve DOM interaction reliability" -> "element"
      [] title.text = "Improve agent prompting for scenario completion" ->
            "verification"
      [] title.text = "Improve WebSocket connection resilience" -> "connection"
      [] OTHER -> "fallback"

\* the rule a list of suggested changes belongs to
ChangesRule(changes) ==
    CASE changes[1] = "Add wait_for_load after every navigate" -> "timeout"
      [] changes[1] =
           "Instruct agent to always call get_dom immediately before clicking"
           -> "element"
      [] changes[1] =
           "Improve scenario prompts to be more specific about expected outcomes"
           -> "verification"
      [] changes[1] = "Add WebSocket reconnection logic in the MCP server" ->
            "connection"
      [] OTHER -> "fallback"

\* the rules a category belongs to
CategoryRules(category) ==
    CASE category = "test_infra" -> {"timeout", "connection"}
      [] category = "browser_agent" -> {"element"}
      [] category = "prompt_engineering" -> {"verification"}
      [] OTHER -> {"fallback"}

\* C38 as stated: the title, the category and the suggested changes of every
\* generated task are those of one and the same keyword rule, the first of
\* timeout, element, verification, connection, fallback that applies to the
\* pattern key.
C38_FieldsFromSameRule ==
    cycle.stage = "tasks" =>
        \A k \in 1..Len(cycle.tasks) :
            LET rule == KeyRule(cycle.tasks[k].description.pattern)
            IN  /\ TitleRule(cycle.tasks[k].title) = rule
                /\ ChangesRule(cycle.tasks[k].suggested_changes) = rule
                /\ rule \in CategoryRules(cycle.tasks[k].category)

\* C39: no step changes or removes a row of the runs table. A step that
\* changes the table is a run_scenario call storing its attempts: the rows
\* there were are kept in place and one row per attempt is added behind
\* them (one to MaxAttempts rows of the scenario run, the last one with the
\* outcome returned, the ones before failed). get_pass_rate, get_cost_trend,
\* get_recent_runs and generate leave the table as it is.
C39_RunsAppendOnly ==
    [][ /\ Len(runs') >= Len(runs)
        /\ SubSeq(runs', 1, Len(runs)) = runs
        /\ (runs' # runs) =>
              /\ Len(report'.results) = Len(report.results) + 1
              /\ Len(runs') - Len(runs) \in 1..MaxAttempts
              /\ \A i \in (Len(runs) + 1)..Len(runs') :
                    /\ runs'[i].scenario_id =
                          report'.results[Len(report'.results)].scenario_id
                    /\ runs'[i].passed =
                          (i = Len(runs')
                             /\ report'.results[Len(report'.results)].passed)
        /\ (mret' # mret \/ report'.done # report.done) => runs' = runs
      ]_vars

\* on a database of earlier runs a batch has stored rows, generate has run
\* and get_recent_runs has returned rows of before and of the batch
C39_Witness ==
    /\ report.done
    /\ mret.call = "get_recent_runs" /\ Len(mret.rows) >= 2
    /\ \E i \in 1..Len(runs) : runs[i].timestamp < BATCH_START
    /\ \E i \in 1..Len(runs) : runs[i].timestamp >= BATCH_START

\* C40: for every Scenario value run_scenario executes at least one attempt
\* and returns a RunResult: the assertion `result is not None` at its end
\* never fails, and a call that has ended has stored an attempt's result.
C40_AlwaysReturnsResult ==
    /\ rpc # "assert_failed"
    /\ (rpc = "done") => (attempt >= 1 /\ result.valid)

====
